---- MODULE Spec2Model ----
(***************************************************************************)
(* Model of the two command surfaces of the repository:                    *)
(*   macos-calendar/scripts/calendar_utils.py  (EventKit access bridge,    *)
(*                                              calendar/reminder CLI)     *)
(*   macos-notes/scripts/notes_manager.py      (AppleScript encoder, CLI)  *)
(***************************************************************************)
EXTENDS Integers, Sequences, FiniteSets, TLC

(***************************************************************************)
(* Bounds of the model and constants of the program.                       *)
(***************************************************************************)
\* event.wait(timeout=30), calendar_utils.py lines 77 and 101
Timeout == 30
\* number of request_*_access calls one process makes (library use)
MaxCalls == 2

Caps == {"event", "reminder"}
\* EKAuthorizationStatus values the host can report
Statuses == {"NotDetermined", "Restricted", "Denied", "Authorized"}

VARIABLES
    hostStatus,   \* EKEventStore.authorizationStatusForEntityType_, per capability
    startStatus,  \* what the host reported at process start (never written)
    authorized,   \* self._authorized_events / self._authorized_reminders
    pc,           \* position of the calling thread
    cur,          \* capability of the request_*_access call in progress / last made
    calls,        \* number of request_*_access calls made so far
    slots,        \* one (granted, event, callback) closure per grant request sent
    elapsed,      \* time the current event.wait has been blocked
    waitRet,      \* what event.wait returned in this call ("set" for True, "timeout"
                  \* for False, "none": no wait); the code drops the value
    result,       \* value returned by the last completed request_*_access
    lastResult,   \* per capability: what the last completed call returned ("granted" for
                  \* True, "denied" for False), "none" before the first
    cmd,          \* the command main was started with, "lib" for a library client
    arg,          \* the parsed arguments of the command
    events,       \* the store: identifiers of the events it holds
    reminders,    \* the store: identifiers of the reminders it holds
    completed,    \* the store: identifiers of the reminders marked completed
    storeLog,     \* the store queries and mutations issued so far, in order
    fetch,        \* get_reminders: the reminders/event closure of the fetch in progress
    details,      \* the store: the fields of each reminder it holds
    tz,           \* the time zone the machine's local time is read in
    conv,         \* a client of the two date conversions: its datetime and the results
    stdout,       \* the documents printed to standard output, in order
    stderr,       \* the messages printed to standard error, in order
    exited,       \* the process has ended
    exitCode,     \* its exit code, once it has ended
    raised,       \* the exception that left the command boundary, <<>> if none
    ncmd,         \* notes surface: the command main was started with
    nargs,        \* notes surface: its parsed arguments
    npc,          \* notes surface: position of the command
    segs,         \* notes surface: the pieces the f-string of the script is made of
    script,       \* notes surface: the script text handed to run_applescript
    nstore,       \* the Notes application's store: its accounts, folders and notes
    ran,          \* what run_applescript returned: (success, output)
    ndoc          \* the dict the command's function returned

\* the process as its invoker sees it
procVars == <<stdout, stderr, exited, exitCode, raised>>

\* the event/reminder store
storeVars == <<events, reminders, completed, storeLog, fetch, details>>

\* the notes command and its script
notesVars == <<ncmd, nargs, npc, segs, script, nstore, ran, ndoc>>

\* the local time zone and the date conversions
dateVars == <<tz, conv>>

cliVars == <<arg, procVars, storeVars, notesVars, dateVars>>

vars == <<hostStatus, startStatus, authorized, pc, cur, calls, slots, elapsed, waitRet,
          result, lastResult, cmd, cliVars>>

\* argparse defaults: no identifier, no container name, flags off, no title, no
\* due date, priority 0
NoArgs == [id |-> "none", name |-> "none", flag |-> FALSE, title |-> "none",
           due |-> <<>>, priority |-> 0]

NoException == <<>>

\* get_reminders lines 428-429: reminders = [None]; event = threading.Event().
\* value: reminders[0] is still None ("none") or holds the fetched array ("result");
\* all: how the store read an empty calendars array; ret: what event.wait returned
NoFetch == [cb |-> "none", value |-> "none", set |-> FALSE, all |-> FALSE, ret |-> "none"]

(***************************************************************************)
(* Dates.  An instant is a whole number of minutes since the epoch, and an *)
(* NSDate holds one.  A datetime holds a wall-clock reading in minutes,    *)
(* the fold attribute and, when it is aware, its UTC offset.  Offsets and  *)
(* the distance between the transitions of a zone are scaled down to a few *)
(* minutes.                                                                *)
(***************************************************************************)
\* the instants the dates of a run lie at are 0..Horizon
Horizon == 16

Instants == 0..Horizon

\* a time zone: the UTC offset is std, raised by shift from the instant spring
\* up to the instant fall
UTC == [std |-> 0, shift |-> 0, spring |-> 0, fall |-> 0]

Zones == {UTC,
          [std |-> 2, shift |-> 1, spring |-> 4, fall |-> 12],
          [std |-> -3, shift |-> 2, spring |-> 5, fall |-> 13]}

\* the UTC offsets an aware datetime carries
Offsets == {-3, 0, 2}

\* time.localtime(u): the wall-clock reading of the local zone at instant u
localtime(u) == u + tz.std + (IF tz.spring <= u /\ u < tz.fall THEN tz.shift ELSE 0)

\* max_fold_seconds of datetime: no zone repeats or skips more than this, and
\* the transitions of a zone lie further apart
MaxFold == 3

\* a datetime without tzinfo, and one with a fixed-offset tzinfo
Naive(w, f) == [wall |-> w, fold |-> f, aware |-> FALSE, off |-> 0]

Aware(w, o) == [wall |-> w, fold |-> 0, aware |-> TRUE, off |-> o]

\* datetime._mktime, reached from dt.timestamp() on line 42: solve
\* localtime(u) = t for u, the earlier solution for fold 0, the later for fold 1
_mktime(dt) ==
    LET t == dt.wall
        a == localtime(t) - t
        u1 == t - a
        t1 == localtime(u1)
        probe == IF dt.fold = 1 THEN u1 + MaxFold ELSE u1 - MaxFold
        b == IF t1 = t THEN localtime(probe) - probe ELSE t1 - u1
        u2 == t - b
        t2 == localtime(u2)
    IN  IF t1 = t /\ a = b THEN u1
        ELSE IF t2 = t THEN u2
        ELSE IF t1 = t THEN u1
        ELSE IF dt.fold = 1 THEN (IF u1 < u2 THEN u1 ELSE u2)
                            ELSE (IF u1 > u2 THEN u1 ELSE u2)

\* dt.timestamp(), line 42: an aware datetime by its offset, a naive one as local time
timestamp(dt) == IF dt.aware THEN dt.wall - dt.off ELSE _mktime(dt)

\* mutation: the second occurrence of a repeated wall-clock reading is not marked
fromtimestamp_nofold(u) == Naive(localtime(u), 0)

\* datetime.fromtimestamp(u), line 47: the naive local datetime of instant u; fold
\* is 1 when the zone moved its clock back less than MaxFold before u and the
\* reading was already shown before the move
fromtimestamp(u) ==
    LET w == localtime(u)
        probe1 == localtime(u - MaxFold)
        trans == w - probe1 - MaxFold
        probe2 == localtime(u + trans)
    IN  Naive(w, IF trans < 0 /\ probe2 = w THEN 1 ELSE 0)

\* lines 40-42: NSDate.dateWithTimeIntervalSince1970_(dt.timestamp())
_nsdate_from_datetime(dt) == timestamp(dt)

\* lines 45-47: datetime.fromtimestamp(nsdate.timeIntervalSince1970())
_datetime_from_nsdate(nsdate) == fromtimestamp(nsdate)

\* dt.isoformat(): the wall-clock reading, followed by the offset of an aware
\* datetime; the fold attribute is not written
isoformat(dt) == [wall |-> dt.wall, offset |-> IF dt.aware THEN <<dt.off>> ELSE <<>>]

\* datetime.fromisoformat(text), lines 641-687
fromisoformat(text) ==
    IF text.offset = <<>> THEN Naive(text.wall, 0) ELSE Aware(text.wall, text.offset[1])

\* the instants at which the local zone shows the wall-clock reading w
InstantsOf(w) == {u \in {w - tz.std, w - tz.std - tz.shift} : localtime(u) = w}

\* the instant a datetime stands for: an aware one by its offset; a naive one is
\* a local reading, and fold tells the two instants of a repeated reading apart
Denotes(dt, u) ==
    IF dt.aware THEN u = dt.wall - dt.off
    ELSE /\ u \in InstantsOf(dt.wall)
         /\ \A v \in InstantsOf(dt.wall) : IF dt.fold = 1 THEN v <= u ELSE u <= v

\* NSCalendar.currentCalendar().components_fromDate_ with the year, month, day,
\* hour and minute units, lines 361-369: the local wall-clock reading
components_fromDate(nsdate) == localtime(nsdate)

\* NSCalendar.currentCalendar().dateFromComponents_, line 442: an instant at
\* which the local zone shows the reading, nil (<<>>) when there is none; late
\* tells which of the two instants of a repeated reading the calendar answers
dateFromComponents(w, late) ==
    LET us == InstantsOf(w)
    IN  IF us = {} THEN <<>>
        ELSE <<CHOOSE u \in us : \A v \in us : IF late THEN v <= u ELSE u <= v>>

\* the datetimes that stand for an instant of the run
Datetimes ==
    {d \in {Naive(u + o, f) : u \in Instants, o \in {tz.std, tz.std + tz.shift},
                              f \in {0, 1}}
           \cup {Aware(u + o, o) : u \in Instants, o \in Offsets} :
       \E u \in Instants : Denotes(d, u)}

\* no conversion in progress
NoConv == [pc |-> "none", t |-> Naive(0, 0), ns |-> 0, back |-> Naive(0, 0)]

\* the fields of a reminder the store holds when the process starts: no due date
StoredDetails ==
    [title |-> "Old", due |-> <<>>, priority |-> 0, list |-> "Home", calendar |-> 1]

\* no client of the conversions; the machine keeps UTC
InitNoDates ==
    /\ tz = UTC
    /\ conv = NoConv

(***************************************************************************)
(* CalendarManager.request_event_access / request_reminder_access          *)
(***************************************************************************)
\* where control goes when request_*_access returns
Continuation == IF cmd = "lib" THEN "idle" ELSE "gate"

\* mutation: the status is compared with a constant the host never reports
StatusIsAuthorized_wrongConstant(status) == status = "FullAccess"

StatusIsAuthorized(status) == status = "Authorized"

\* mutation: a denied capability is asked for again
StatusIsNotDetermined_reask(status) == status \in {"NotDetermined", "Denied"}

StatusIsNotDetermined(status) == status = "NotDetermined"

\* granted = [False]; event = threading.Event(); def callback ...
NewSlot(c) ==
    [cap |-> c, granted |-> FALSE, set |-> FALSE, cb |-> "pending",
     success |-> FALSE, reads |-> 0, writes |-> 0]

\* number of requestAccessToEntityType_completion_ calls made for capability c
RequestCount(c) == Cardinality({k \in DOMAIN slots : slots[k].cap = c})

\* the slot of the call in progress (the last one created)
Cur == Len(slots)

\* lines 60-76 (83-100): read the status, return at once or send the grant request
request_access(c) ==
    /\ pc \in {"idle", "main"}
    /\ calls < MaxCalls
    /\ calls' = calls + 1
    /\ cur' = c
    /\ waitRet' = "none"
    /\ IF StatusIsAuthorized(hostStatus[c])
       THEN /\ authorized' = [authorized EXCEPT ![c] = TRUE]
            /\ result' = TRUE
            /\ lastResult' = [lastResult EXCEPT ![c] = "granted"]
            /\ pc' = Continuation
            /\ UNCHANGED <<slots, elapsed>>
       ELSE IF StatusIsNotDetermined(hostStatus[c])
       THEN /\ slots' = Append(slots, NewSlot(c))
            /\ elapsed' = 0
            /\ pc' = "wait"
            /\ UNCHANGED <<authorized, result, lastResult>>
       ELSE /\ result' = FALSE
            /\ lastResult' = [lastResult EXCEPT ![c] = "denied"]
            /\ pc' = Continuation
            /\ UNCHANGED <<authorized, slots, elapsed>>
    /\ UNCHANGED <<hostStatus, startStatus, cmd, cliVars>>

request_event_access ==
    /\ cmd = "lib"
    /\ request_access("event")

request_reminder_access ==
    /\ cmd = "lib"
    /\ request_access("reminder")

\* mutation: event.wait() without a timeout
WaitReturns_noTimeout(slot, t) == slot.set

\* event.wait(timeout=30) returns: the event is set, or the timeout has elapsed
WaitReturns(slot, t) == slot.set \/ t >= Timeout

\* one unit of time passes while the caller is blocked in event.wait
Tick ==
    /\ pc \in {"wait", "fetch_wait"}
    /\ elapsed < Timeout
    /\ elapsed' = elapsed + 1
    /\ UNCHANGED <<hostStatus, startStatus, authorized, pc, cur, calls, slots, waitRet,
                   result, lastResult, cmd, cliVars>>

\* line 77 (101): event.wait(timeout=30); its return value is not used
event_wait ==
    /\ pc = "wait"
    /\ WaitReturns(slots[Cur], elapsed)
    /\ waitRet' = IF slots[Cur].set THEN "set" ELSE "timeout"
    /\ pc' = "store"
    /\ UNCHANGED <<hostStatus, startStatus, authorized, cur, calls, slots, elapsed,
                   result, lastResult, cmd, cliVars>>

\* line 78 (102): self._authorized_events = granted[0]
store_flag ==
    /\ pc = "store"
    /\ authorized' = [authorized EXCEPT ![cur] = slots[Cur].granted]
    /\ slots' = [slots EXCEPT ![Cur].reads = @ + 1]
    /\ pc' = "return"
    /\ UNCHANGED <<hostStatus, startStatus, cur, calls, elapsed, waitRet, result, lastResult, cmd, cliVars>>

\* line 79 (103): return granted[0]
return_granted ==
    /\ pc = "return"
    /\ result' = slots[Cur].granted
    /\ lastResult' = [lastResult EXCEPT
                        ![cur] = IF slots[Cur].granted THEN "granted" ELSE "denied"]
    /\ slots' = [slots EXCEPT ![Cur].reads = @ + 1]
    /\ pc' = Continuation
    /\ UNCHANGED <<hostStatus, startStatus, authorized, cur, calls, elapsed, waitRet, cmd, cliVars>>

(***************************************************************************)
(* The host: the user answers the prompt, then the completion callback     *)
(* runs on the host's thread.  The host may also never call back.          *)
(***************************************************************************)
\* the host decides request k and invokes callback(success, error)
HostDecide(k, s) ==
    /\ slots[k].cb = "pending"
    /\ \/ hostStatus[slots[k].cap] = "NotDetermined"
       \/ s = (hostStatus[slots[k].cap] = "Authorized")
    /\ hostStatus' = [hostStatus EXCEPT
                        ![slots[k].cap] = IF s THEN "Authorized" ELSE "Denied"]
    /\ slots' = [slots EXCEPT ![k].cb = "called", ![k].success = s]
    /\ UNCHANGED <<startStatus, authorized, pc, cur, calls, elapsed, waitRet,
                   result, lastResult, cmd, cliVars>>

\* line 73 (97): granted[0] = success
callback_write(k) ==
    /\ slots[k].cb = "called"
    /\ slots' = [slots EXCEPT ![k].granted = slots[k].success,
                              ![k].writes = @ + 1,
                              ![k].cb = "wrote"]
    /\ UNCHANGED <<hostStatus, startStatus, authorized, pc, cur, calls, elapsed, waitRet,
                   result, lastResult, cmd, cliVars>>

\* line 74 (98): event.set()
callback_set(k) ==
    /\ slots[k].cb = "wrote"
    /\ slots' = [slots EXCEPT ![k].set = TRUE, ![k].cb = "done"]
    /\ UNCHANGED <<hostStatus, startStatus, authorized, pc, cur, calls, elapsed, waitRet,
                   result, lastResult, cmd, cliVars>>

\* the user answers the prompt of some pending request
host_decides ==
    /\ ~exited
    /\ \E k \in DOMAIN slots : \E s \in BOOLEAN : HostDecide(k, s)

\* the host's thread runs line 73 (97) of some callback
host_callback_writes ==
    /\ ~exited
    /\ \E k \in DOMAIN slots : callback_write(k)

\* the host's thread runs line 74 (98) of some callback
host_callback_sets ==
    /\ ~exited
    /\ \E k \in DOMAIN slots : callback_set(k)

\* the host's steps; they end with the process
Host ==
    \/ host_decides
    \/ host_callback_writes
    \/ host_callback_sets

(***************************************************************************)
(* A library client: CalendarManager() followed by request_*_access calls. *)
(***************************************************************************)
\* CalendarManager.__init__, lines 53-56
InitManager ==
    /\ authorized = [c \in Caps |-> FALSE]
    /\ cur = "event"
    /\ calls = 0
    /\ slots = <<>>
    /\ elapsed = 0
    /\ waitRet = "none"
    /\ result = FALSE
    /\ lastResult = [c \in Caps |-> "none"]

\* run_applescript has not returned yet
NotRun == [returned |-> FALSE, success |-> FALSE, output |-> <<>>, how |-> "none",
           refused |-> {}]

\* no dict returned yet; the keys a function does not set are left empty
NoDoc == [returned |-> FALSE, success |-> FALSE, error |-> <<>>, notes |-> <<>>,
          message |-> <<>>, content |-> <<>>]

\* no notes command is running
InitNoNotes ==
    /\ ncmd = "none"
    /\ nargs = <<>>
    /\ npc = "none"
    /\ segs = <<>>
    /\ script = <<>>
    /\ nstore = <<>>
    /\ ran = NotRun
    /\ ndoc = NoDoc

\* a fresh process: nothing printed, not ended
InitProcess ==
    /\ stdout = <<>>
    /\ stderr = <<>>
    /\ exited = FALSE
    /\ exitCode = 0
    /\ raised = NoException

InitBroker ==
    /\ hostStatus \in [Caps -> Statuses]
    /\ startStatus = hostStatus
    /\ InitManager
    /\ pc = "idle"
    /\ cmd = "lib"
    /\ arg = NoArgs
    /\ events = {}
    /\ reminders = {}
    /\ completed = {}
    /\ storeLog = <<>>
    /\ fetch = NoFetch
    /\ details = [i \in reminders |-> StoredDetails]
    /\ InitNoDates
    /\ InitProcess
    /\ InitNoNotes

NextBroker ==
    \/ request_event_access
    \/ request_reminder_access
    \/ Tick
    \/ event_wait
    \/ store_flag
    \/ return_granted
    \/ Host

SpecBroker == InitBroker /\ [][NextBroker]_vars

\* the user withdraws a grant in the system's privacy settings: the status that
\* lines 60 and 85 read afresh at every call goes from authorized to denied
host_revokes ==
    /\ ~exited
    /\ \E c \in Caps :
         /\ hostStatus[c] = "Authorized"
         /\ hostStatus' = [hostStatus EXCEPT ![c] = "Denied"]
    /\ UNCHANGED <<startStatus, authorized, pc, cur, calls, slots, elapsed, waitRet,
                   result, lastResult, cmd, cliVars>>

\* a library client on a host whose user may also withdraw a grant
NextRevoke ==
    \/ request_event_access
    \/ request_reminder_access
    \/ Tick
    \/ event_wait
    \/ store_flag
    \/ return_granted
    \/ Host
    \/ host_revokes

SpecRevoke == InitBroker /\ [][NextRevoke]_vars

\* time passes and the calling thread is scheduled; nothing obliges the host to call back
FairBroker ==
    /\ SpecBroker
    /\ WF_vars(Tick)
    /\ WF_vars(event_wait)
    /\ WF_vars(store_flag)
    /\ WF_vars(return_granted)

(***************************************************************************)
(* The event/reminder store as CalendarManager uses it.                    *)
(***************************************************************************)
\* identifiers a caller can name on the command line
EventIds == {"e1", "e2"}
ReminderIds == {"r1", "r2"}
\* the identifiers among them that the store may hold when the process starts
StoredEventIds == {"e1"}
StoredReminderIds == {"r1"}
\* the identifier the store assigns to the one item a process can create
NewEventId == "e_new"
NewReminderId == "r_new"
\* container names a caller can pass; "none" stands for an option not given
ContainerNames == {"none", "Home", "Missing"}

\* the titles of the store's calendars per entity type, in enumeration order;
\* two calendars may bear the same title
CalendarTitles(c) ==
    IF c = "event" THEN <<"Work", "Home", "Home">> ELSE <<"Home", "Tasks", "Home">>

\* store.defaultCalendarForNewEvents(), store.defaultCalendarForNewReminders():
\* the index of the default calendar of the entity type
DefaultCalendar(c) == IF c = "event" THEN 3 ELSE 2

\* the title of store.defaultCalendarForNewReminders()
DefaultList == CalendarTitles("reminder")[DefaultCalendar("reminder")]

\* one store query or mutation and the capability it needs
StoreOp(name, c) == [op |-> name, cap |-> c, calendar |-> 0]

\* a save of an item whose calendar is the one of index k
SaveOp(name, c, k) == [op |-> name, cap |-> c, calendar |-> k]

\* mutation: the last calendar titled name is taken
get_calendar_by_name_last(name, c) ==
    LET hits == {i \in DOMAIN CalendarTitles(c) : CalendarTitles(c)[i] = name}
    IN  IF hits = {} THEN 0 ELSE CHOOSE i \in hits : \A j \in hits : i >= j

\* lines 127-135: the first calendar titled name (its index), 0 for None
get_calendar_by_name(name, c) ==
    LET hits == {i \in DOMAIN CalendarTitles(c) : CalendarTitles(c)[i] = name}
    IN  IF hits = {} THEN 0 ELSE CHOOSE i \in hits : \A j \in hits : i <= j

\* lines 327-334
get_reminder_list_by_name(name) == get_calendar_by_name(name, "reminder")

\* lines 107-125
list_calendars ==
    [exc |-> NoException,
     log |-> <<StoreOp("calendarsForEntityType", "event")>>]

\* lines 199-241, called with calendar_names = None
get_events ==
    [exc |-> NoException,
     items |-> events,
     log |-> <<StoreOp("predicateForEvents", "event"),
               StoreOp("eventsMatchingPredicate", "event")>>]

\* lines 137-197; ok is the success flag saveEvent_span_error_ returns
create_event(calendar_name, ok) ==
    IF calendar_name /= "none" /\ get_calendar_by_name(calendar_name, "event") = 0
    THEN [exc |-> <<"ValueError", "Calendar", calendar_name, "not found">>,
          events |-> events,
          log |-> <<StoreOp("calendarsForEntityType", "event")>>]
    ELSE LET lookup == IF calendar_name /= "none"
                       THEN StoreOp("calendarsForEntityType", "event")
                       ELSE StoreOp("defaultCalendarForNewEvents", "event")
             calendar == IF calendar_name /= "none"
                         THEN get_calendar_by_name(calendar_name, "event")
                         ELSE DefaultCalendar("event")
         IN  IF ok
             THEN [exc |-> NoException,
                   events |-> events \cup {NewEventId},
                   log |-> <<lookup, SaveOp("saveEvent", "event", calendar)>>]
             ELSE [exc |-> <<"RuntimeError", "Failed to save event">>,
                   events |-> events,
                   log |-> <<lookup, SaveOp("saveEvent", "event", calendar)>>]

\* lines 243-259; ok is the success flag removeEvent_span_error_ returns
delete_event(event_id, ok) ==
    IF event_id \notin events
    THEN [exc |-> <<"ValueError", "Event", event_id, "not found">>,
          events |-> events,
          log |-> <<StoreOp("eventWithIdentifier", "event")>>]
    ELSE IF ok
    THEN [exc |-> NoException,
          events |-> events \ {event_id},
          log |-> <<StoreOp("eventWithIdentifier", "event"),
                    StoreOp("removeEvent", "event")>>]
    ELSE [exc |-> <<"RuntimeError", "Failed to delete event">>,
          events |-> events,
          log |-> <<StoreOp("eventWithIdentifier", "event"),
                    StoreOp("removeEvent", "event")>>]

\* lines 313-325
list_reminder_lists ==
    [exc |-> NoException,
     log |-> <<StoreOp("calendarsForEntityType", "reminder")>>]

\* lines 411-417: calendars is None (<<"None">>) when no list name is given, else
\* the lists found under the given name, the ones not found filtered out
CalendarsOf(list_name) ==
    IF list_name = "none" THEN <<"None">>
    ELSE IF get_reminder_list_by_name(list_name) = 0 THEN <<>>
    ELSE <<get_reminder_list_by_name(list_name)>>

\* lines 400-456; fetched: reminders[0] holds the fetched array when it is read
\* (line 439), it is None otherwise; all: the store reads an empty calendars
\* array as "every list" (the store's documentation only defines nil and
\* non-empty arrays).
get_reminders(list_name, include_completed, fetched, all) ==
    LET lookup == IF list_name /= "none"
                  THEN <<StoreOp("calendarsForEntityType", "reminder")>>
                  ELSE <<>>
        wanted == IF include_completed THEN reminders ELSE reminders \ completed
        matching == IF list_name = "none" THEN wanted
                    ELSE IF CalendarsOf(list_name) = <<>>
                    THEN (IF all THEN wanted ELSE {})
                    ELSE {i \in wanted : details[i].calendar = CalendarsOf(list_name)[1]}
    IN  [exc |-> NoException,
         items |-> IF fetched THEN matching ELSE {},
         log |-> lookup \o <<StoreOp("predicateForReminders", "reminder"),
                             StoreOp("fetchRemindersMatchingPredicate", "reminder")>>]

\* lines 336-398; due_date is <<>> for None; ok is the success flag
\* saveReminder_commit_error_ returns
create_reminder(title, due_date, list_name, priority, ok) ==
    IF list_name /= "none" /\ get_reminder_list_by_name(list_name) = 0
    THEN [exc |-> <<"ValueError", "Reminder list", list_name, "not found">>,
          reminders |-> reminders,
          details |-> details,
          records |-> {},
          log |-> <<StoreOp("calendarsForEntityType", "reminder")>>]
    ELSE LET lookup == IF list_name /= "none"
                       THEN StoreOp("calendarsForEntityType", "reminder")
                       ELSE StoreOp("defaultCalendarForNewReminders", "reminder")
             calendar == IF list_name /= "none"
                         THEN get_reminder_list_by_name(list_name)
                         ELSE DefaultCalendar("reminder")
             list == CalendarTitles("reminder")[calendar]
             components ==
                 IF due_date = <<>> THEN <<>>
                 ELSE <<components_fromDate(_nsdate_from_datetime(due_date[1]))>>
             fields == [title |-> title, due |-> components, priority |-> priority,
                        list |-> list, calendar |-> calendar]
         IN  IF ok
             THEN [exc |-> NoException,
                   reminders |-> reminders \cup {NewReminderId},
                   details |-> [i \in reminders \cup {NewReminderId} |->
                                  IF i = NewReminderId THEN fields ELSE details[i]],
                   records |-> {[reminder_id |-> NewReminderId,
                                 title |-> title,
                                 due_date |-> IF due_date = <<>> THEN <<>>
                                              ELSE <<isoformat(due_date[1])>>,
                                 priority |-> priority,
                                 completed |-> FALSE,
                                 list |-> list]},
                   log |-> <<lookup, SaveOp("saveReminder", "reminder", calendar)>>]
             ELSE [exc |-> <<"RuntimeError", "Failed to save reminder">>,
                   reminders |-> reminders,
                   details |-> details,
                   records |-> {},
                   log |-> <<lookup, SaveOp("saveReminder", "reminder", calendar)>>]

\* lines 438-456: the dict get_reminders builds for the fetched reminder i
ReminderRecord(i, late) ==
    LET d == details[i]
        due_nsdate == IF d.due = <<>> THEN <<>> ELSE dateFromComponents(d.due[1], late)
    IN  [reminder_id |-> i,
         title |-> d.title,
         due_date |-> IF due_nsdate = <<>> THEN <<>>
                      ELSE <<isoformat(_datetime_from_nsdate(due_nsdate[1]))>>,
         priority |-> d.priority,
         completed |-> i \in completed,
         list |-> d.list]

\* lines 458-484; ok is the success flag saveReminder_commit_error_ returns
complete_reminder(reminder_id, done, ok) ==
    IF reminder_id \notin reminders
    THEN [exc |-> <<"ValueError", "Reminder", reminder_id, "not found">>,
          completed |-> completed,
          log |-> <<StoreOp("calendarItemWithIdentifier", "reminder")>>]
    ELSE IF ok
    THEN [exc |-> NoException,
          completed |-> IF done THEN completed \cup {reminder_id}
                                ELSE completed \ {reminder_id},
          log |-> <<StoreOp("calendarItemWithIdentifier", "reminder"),
                    StoreOp("saveReminder", "reminder")>>]
    ELSE [exc |-> <<"RuntimeError", "Failed to update reminder">>,
          completed |-> completed,
          log |-> <<StoreOp("calendarItemWithIdentifier", "reminder"),
                    StoreOp("saveReminder", "reminder")>>]

\* lines 486-495; ok is the success flag removeReminder_commit_error_ returns
delete_reminder(reminder_id, ok) ==
    IF reminder_id \notin reminders
    THEN [exc |-> <<"ValueError", "Reminder", reminder_id, "not found">>,
          reminders |-> reminders,
          log |-> <<StoreOp("calendarItemWithIdentifier", "reminder")>>]
    ELSE IF ok
    THEN [exc |-> NoException,
          reminders |-> reminders \ {reminder_id},
          log |-> <<StoreOp("calendarItemWithIdentifier", "reminder"),
                    StoreOp("removeReminder", "reminder")>>]
    ELSE [exc |-> <<"RuntimeError", "Failed to delete reminder">>,
          reminders |-> reminders,
          log |-> <<StoreOp("calendarItemWithIdentifier", "reminder"),
                    StoreOp("removeReminder", "reminder")>>]

(***************************************************************************)
(* The calendar/reminder command surface: the __main__ block, lines 557-703*)
(***************************************************************************)
EventCommands == {"list-calendars", "list-events", "create-event", "delete-event"}

\* lines 623-624
ReminderCommands == {"list-reminder-lists", "list-reminders", "create-reminder",
                     "complete-reminder", "delete-reminder"}

Commands == EventCommands \cup ReminderCommands

\* mutation: every command asks for calendar access only
CapabilityOf_eventOnly(command) == "event"

\* lines 623-631: the capability whose access the command requests
CapabilityOf(command) ==
    IF command \in ReminderCommands THEN "reminder" ELSE "event"

\* the arguments argparse can hand to each command (lines 566-618)
ArgsOf(command) ==
    CASE command = "delete-event" ->
           {[NoArgs EXCEPT !.id = i] : i \in EventIds}
      [] command = "complete-reminder" ->
           {[NoArgs EXCEPT !.id = i, !.flag = f] : i \in ReminderIds, f \in BOOLEAN}
      [] command = "delete-reminder" ->
           {[NoArgs EXCEPT !.id = i] : i \in ReminderIds}
      [] command \in {"create-event", "create-reminder"} ->
           {[NoArgs EXCEPT !.name = n, !.title = "T"] : n \in ContainerNames}
      [] command = "list-reminders" ->
           {[NoArgs EXCEPT !.name = n, !.flag = f] : n \in ContainerNames, f \in BOOLEAN}
      [] OTHER -> {NoArgs}

\* documents a command prints with print(): json.dumps of a list, json.dumps of
\* a dict (with the keys it carries), or a plain f-string
JsonArray(xs) ==
    [json |-> TRUE, shape |-> "array", success |-> "absent", error |-> <<>>,
     items |-> xs, records |-> {}, text |-> <<>>]

JsonObject ==
    [json |-> TRUE, shape |-> "object", success |-> "absent", error |-> <<>>,
     items |-> {}, records |-> {}, text |-> <<>>]

PlainText(words) ==
    [json |-> FALSE, shape |-> "text", success |-> "absent", error |-> <<>>,
     items |-> {}, records |-> {}, text |-> words]

brokerVars == <<hostStatus, startStatus, authorized, cur, calls, slots, elapsed,
                waitRet, result, lastResult>>

\* print(doc) as the last statement of a handler: the script ends, exit code 0
PrintAndEnd(doc) ==
    /\ stdout' = Append(stdout, doc)
    /\ exited' = TRUE
    /\ exitCode' = 0
    /\ pc' = "exited"
    /\ UNCHANGED <<stderr, raised>>

\* an exception nothing catches: the interpreter prints the traceback to
\* standard error and the process ends with exit code 1
Uncaught(exc) ==
    /\ raised' = exc
    /\ stderr' = Append(stderr, <<"Traceback">> \o exc)
    /\ exited' = TRUE
    /\ exitCode' = 1
    /\ pc' = "exited"
    /\ UNCHANGED stdout

\* a handler that called a manager method with outcome r and prints doc
Finish(r, doc) ==
    /\ storeLog' = storeLog \o r.log
    /\ IF r.exc /= NoException THEN Uncaught(r.exc) ELSE PrintAndEnd(doc)
    /\ UNCHANGED <<brokerVars, cmd, arg, fetch, notesVars, dateVars>>

\* lines 620-631: mgr = CalendarManager(); the access request of the command
main_request_access ==
    /\ pc = "main"
    /\ cmd \in Commands
    /\ request_access(CapabilityOf(cmd))

\* lines 625-627 and 629-631: not granted, message on stderr and sys.exit(1)
access_gate ==
    /\ pc = "gate"
    /\ IF result
       THEN /\ pc' = "handler"
            /\ UNCHANGED procVars
       ELSE /\ stderr' = Append(stderr, <<"Error:", CapabilityOf(cmd), "access not granted">>)
            /\ exited' = TRUE
            /\ exitCode' = 1
            /\ pc' = "exited"
            /\ UNCHANGED <<stdout, raised>>
    /\ UNCHANGED <<brokerVars, cmd, arg, storeVars, notesVars, dateVars>>

\* lines 635-637
cmd_list_calendars ==
    /\ pc = "handler" /\ cmd = "list-calendars"
    /\ Finish(list_calendars, JsonArray({}))
    /\ UNCHANGED <<events, reminders, completed, details>>

\* lines 639-651
cmd_list_events ==
    /\ pc = "handler" /\ cmd = "list-events"
    /\ Finish(get_events, JsonArray(get_events.items))
    /\ UNCHANGED <<events, reminders, completed, details>>

\* lines 653-669
cmd_create_event ==
    /\ pc = "handler" /\ cmd = "create-event"
    /\ \E ok \in BOOLEAN :
         LET r == create_event(arg.name, ok)
         IN  /\ events' = r.events
             /\ Finish(r, JsonObject)
    /\ UNCHANGED <<reminders, completed, details>>

\* lines 671-673
cmd_delete_event ==
    /\ pc = "handler" /\ cmd = "delete-event"
    /\ \E ok \in BOOLEAN :
         LET r == delete_event(arg.id, ok)
         IN  /\ events' = r.events
             /\ Finish(r, PlainText(<<"Deleted event:", arg.id>>))
    /\ UNCHANGED <<reminders, completed, details>>

\* lines 677-679
cmd_list_reminder_lists ==
    /\ pc = "handler" /\ cmd = "list-reminder-lists"
    /\ Finish(list_reminder_lists, JsonArray({}))
    /\ UNCHANGED <<events, reminders, completed, details>>

\* lines 681-683 and 411-435: the list lookup, the predicate, the fetch request
cmd_list_reminders ==
    /\ pc = "handler" /\ cmd = "list-reminders"
    /\ storeLog' = storeLog \o get_reminders(arg.name, arg.flag, FALSE, FALSE).log
    /\ fetch' = [NoFetch EXCEPT !.cb = "pending"]
    /\ elapsed' = 0
    /\ pc' = "fetch_wait"
    /\ UNCHANGED <<hostStatus, startStatus, authorized, cur, calls, slots, waitRet,
                   result, lastResult, cmd, arg, procVars, events, reminders,
                   completed, details, notesVars, dateVars>>

\* line 436: event.wait(timeout=30); its return value is not used
fetch_wait ==
    /\ pc = "fetch_wait"
    /\ WaitReturns(fetch, elapsed)
    /\ fetch' = [fetch EXCEPT !.ret = IF fetch.set THEN "set" ELSE "timeout"]
    /\ pc' = "fetch_read"
    /\ UNCHANGED <<brokerVars, cmd, arg, procVars, events, reminders, completed,
                   storeLog, details, notesVars, dateVars>>

\* lines 438-456 and 684: reminders[0] is read once, the records are printed
fetch_read ==
    /\ pc = "fetch_read"
    /\ \E late \in BOOLEAN :
         LET r == get_reminders(arg.name, arg.flag, fetch.value = "result", fetch.all)
         IN  Finish([r EXCEPT !.log = <<>>],
                    [JsonArray(r.items) EXCEPT
                       !.records = {ReminderRecord(i, late) : i \in r.items}])
    /\ UNCHANGED <<events, reminders, completed, details>>

\* the store's thread runs line 432 of the fetch callback: reminders[0] = result
fetch_callback_write ==
    /\ ~exited
    /\ fetch.cb = "pending"
    /\ \E all \in BOOLEAN :
         fetch' = [fetch EXCEPT !.cb = "wrote", !.value = "result", !.all = all]
    /\ UNCHANGED <<brokerVars, pc, cmd, arg, procVars, events, reminders, completed,
                   storeLog, details, notesVars, dateVars>>

\* the store's thread runs line 433 of the fetch callback: event.set()
fetch_callback_set ==
    /\ ~exited
    /\ fetch.cb = "wrote"
    /\ fetch' = [fetch EXCEPT !.cb = "done", !.set = TRUE]
    /\ UNCHANGED <<brokerVars, pc, cmd, arg, procVars, events, reminders, completed,
                   storeLog, details, notesVars, dateVars>>

\* line 687: datetime.fromisoformat(args.due) if args.due else None
DueDate(due) == IF due = <<>> THEN <<>> ELSE <<fromisoformat(due[1])>>

\* lines 686-695
cmd_create_reminder ==
    /\ pc = "handler" /\ cmd = "create-reminder"
    /\ \E ok \in BOOLEAN :
         LET r == create_reminder(arg.title, DueDate(arg.due), arg.name, arg.priority, ok)
         IN  /\ reminders' = r.reminders
             /\ details' = r.details
             /\ Finish(r, [JsonObject EXCEPT !.records = r.records])
    /\ UNCHANGED <<events, completed>>

\* lines 697-699: completed = not args.undo
cmd_complete_reminder ==
    /\ pc = "handler" /\ cmd = "complete-reminder"
    /\ \E ok \in BOOLEAN :
         LET r == complete_reminder(arg.id, ~arg.flag, ok)
         IN  /\ completed' = r.completed
             /\ Finish(r, JsonObject)
    /\ UNCHANGED <<events, reminders, details>>

\* lines 701-703
cmd_delete_reminder ==
    /\ pc = "handler" /\ cmd = "delete-reminder"
    /\ \E ok \in BOOLEAN :
         LET r == delete_reminder(arg.id, ok)
         IN  /\ reminders' = r.reminders
             /\ completed' = completed \ (reminders \ r.reminders)
             /\ details' = [i \in r.reminders |-> details[i]]
             /\ Finish(r, PlainText(<<"Deleted reminder:", arg.id>>))
    /\ UNCHANGED events

\* one invocation of the script with a command, in some state of the host
InitCal ==
    /\ hostStatus \in [Caps -> Statuses]
    /\ startStatus = hostStatus
    /\ InitManager
    /\ pc = "main"
    /\ cmd \in Commands
    /\ arg \in ArgsOf(cmd)
    /\ events \in SUBSET StoredEventIds
    /\ reminders \in SUBSET StoredReminderIds
    /\ completed \in SUBSET reminders
    /\ storeLog = <<>>
    /\ fetch = NoFetch
    /\ details = [i \in reminders |-> StoredDetails]
    /\ InitNoDates
    /\ InitProcess
    /\ InitNoNotes

NextCal ==
    \/ main_request_access
    \/ Tick
    \/ event_wait
    \/ store_flag
    \/ return_granted
    \/ Host
    \/ access_gate
    \/ cmd_list_calendars
    \/ cmd_list_events
    \/ cmd_create_event
    \/ cmd_delete_event
    \/ cmd_list_reminder_lists
    \/ cmd_list_reminders
    \/ fetch_wait
    \/ fetch_read
    \/ fetch_callback_write
    \/ fetch_callback_set
    \/ cmd_create_reminder
    \/ cmd_complete_reminder
    \/ cmd_delete_reminder

SpecCal == InitCal /\ [][NextCal]_vars

(***************************************************************************)
(* A client of the two date conversions: it holds a datetime, makes the    *)
(* NSDate of it and makes a datetime of that NSDate.                       *)
(***************************************************************************)
InitDates ==
    /\ hostStatus = [c \in Caps |-> "NotDetermined"]
    /\ startStatus = hostStatus
    /\ InitManager
    /\ pc = "idle"
    /\ cmd = "lib"
    /\ arg = NoArgs
    /\ events = {}
    /\ reminders = {}
    /\ completed = {}
    /\ storeLog = <<>>
    /\ fetch = NoFetch
    /\ details = [i \in reminders |-> StoredDetails]
    /\ InitProcess
    /\ InitNoNotes
    /\ tz \in Zones
    /\ conv \in {[NoConv EXCEPT !.pc = "start", !.t = d] : d \in Datetimes}

\* line 40: the call _nsdate_from_datetime(dt)
to_native ==
    /\ conv.pc = "start"
    /\ conv' = [conv EXCEPT !.pc = "native", !.ns = _nsdate_from_datetime(conv.t)]
    /\ UNCHANGED <<brokerVars, pc, cmd, arg, procVars, storeVars, notesVars, tz>>

\* line 45: the call _datetime_from_nsdate(nsdate)
from_native ==
    /\ conv.pc = "native"
    /\ conv' = [conv EXCEPT !.pc = "back", !.back = _datetime_from_nsdate(conv.ns)]
    /\ UNCHANGED <<brokerVars, pc, cmd, arg, procVars, storeVars, notesVars, tz>>

NextDates ==
    \/ to_native
    \/ from_native

SpecDates == InitDates /\ [][NextDates]_vars

(***************************************************************************)
(* A session of two invocations of the script: create-reminder, and after  *)
(* it has ended with exit code 0, list-reminders.  The access to reminders *)
(* is already granted.  The store, the host and the terminal are the same  *)
(* for both; each invocation is a process of its own.                      *)
(***************************************************************************)
\* line 603: choices=[0, 1, 5, 9]
Priorities == {0, 1, 5, 9}

\* the --due texts: a local reading, or a reading with the offset +00:00
DueArgs ==
    {isoformat(d) : d \in {x \in Datetimes : x.aware => x.off = 0}}

\* create-reminder T --due D --priority P
CreateArgs ==
    {[NoArgs EXCEPT !.title = "T", !.due = <<d>>, !.priority = p] :
        d \in DueArgs, p \in Priorities}

\* list-reminders, with or without --include-completed, of every list or of
\* the list the reminder went to
ListArgs ==
    {[NoArgs EXCEPT !.name = n, !.flag = f] : n \in {"none", DefaultList}, f \in BOOLEAN}

InitSession ==
    /\ hostStatus = [c \in Caps |-> "Authorized"]
    /\ startStatus = hostStatus
    /\ InitManager
    /\ pc = "main"
    /\ cmd = "create-reminder"
    /\ tz \in Zones
    /\ conv = NoConv
    /\ arg \in CreateArgs
    /\ events = {}
    /\ reminders = StoredReminderIds
    /\ completed = {}
    /\ storeLog = <<>>
    /\ fetch = NoFetch
    /\ details = [i \in reminders |-> StoredDetails]
    /\ InitProcess
    /\ InitNoNotes

\* the invoker runs the script again: a new process and a new CalendarManager
\* (lines 620-621, 53-56); the store and the terminal's transcript remain
next_invocation ==
    /\ pc = "exited"
    /\ cmd = "create-reminder"
    /\ exitCode = 0
    /\ cmd' = "list-reminders"
    /\ arg' \in ListArgs
    /\ pc' = "main"
    /\ authorized' = [c \in Caps |-> FALSE]
    /\ cur' = "event"
    /\ calls' = 0
    /\ slots' = <<>>
    /\ elapsed' = 0
    /\ waitRet' = "none"
    /\ result' = FALSE
    /\ lastResult' = [c \in Caps |-> "none"]
    /\ exited' = FALSE
    /\ exitCode' = 0
    /\ raised' = NoException
    /\ fetch' = NoFetch
    /\ UNCHANGED <<hostStatus, startStatus, stdout, stderr, events, reminders,
                   completed, storeLog, details, notesVars, dateVars>>

NextSession ==
    \/ main_request_access
    \/ access_gate
    \/ cmd_create_reminder
    \/ next_invocation
    \/ cmd_list_reminders
    \/ Tick
    \/ fetch_wait
    \/ fetch_read
    \/ fetch_callback_write
    \/ fetch_callback_set

SpecSession == InitSession /\ [][NextSession]_vars

(***************************************************************************)
(* The notes surface: notes_manager.py, the scripts it assembles.          *)
(*                                                                         *)
(* A script is a sequence of characters, each tagged with where it comes   *)
(* from.  "bs" is the backslash, "dq" the double quote, "a" an ordinary    *)
(* character; "t" stands for a stretch of the template's own text that     *)
(* holds no quote and no backslash.                                        *)
(***************************************************************************)
Chars == {"bs", "dq", "a"}

\* the strings of at most n characters
StringsUpTo(n) == UNION {[1..k -> Chars] : k \in 0..n}

\* longest title, query, or folder name to create that a caller passes
MaxLen == 3

\* the values the other string arguments take; <<>> is also an option not given
FieldValues == {<<>>, <<"a">>, <<"dq">>, <<"bs">>}

\* str.replace(old, new) for a one-character old
Replace(text, old, new) ==
    LET RECURSIVE rep(_)
        rep(t) == IF t = <<>> THEN <<>>
                  ELSE (IF Head(t) = old THEN new ELSE <<Head(t)>>) \o rep(Tail(t))
    IN  rep(text)

\* mutation: the two replacements in the other order
escape_for_applescript_quoteFirst(text) ==
    Replace(Replace(text, "dq", <<"bs", "dq">>), "bs", <<"bs", "bs">>)

\* lines 54-56: text.replace("\\", "\\\\").replace('"', '\\"')
escape_for_applescript(text) ==
    Replace(Replace(text, "bs", <<"bs", "bs">>), "dq", <<"bs", "dq">>)

\* the lower-case form of one character; only letters have one
LowerChar(ch) ==
    CASE ch = "A" -> "a"
      [] ch = "M" -> "m"
      [] ch = "I" -> "i"
      [] ch = "T" -> "t"
      [] OTHER -> ch

\* str.lower(), line 327
Lower(text) == [i \in DOMAIN text |-> LowerChar(text[i])]

\* Python truthiness of an optional string argument: None and "" are false
Given(x) == x /= <<>>

\* the pieces of an f-string: template text, and replacement fields
Code == <<[user |-> FALSE, escaped |-> FALSE, orig |-> <<>>, text |-> <<"t">>]>>

Quote == <<[user |-> FALSE, escaped |-> FALSE, orig |-> <<>>, text |-> <<"dq">>]>>

\* a string literal of the template, "..." around the given pieces
Lit(inner) == Quote \o inner \o Quote

\* a literal of the template with fixed text, such as "Notes" or "ERROR: "
Fixed == Lit(Code)

\* the literal "" of the template
Empty == Lit(<<>>)

\* {escaped_x}: a replacement field holding escape_for_applescript(x)
Esc(x) == <<[user |-> TRUE, escaped |-> TRUE, orig |-> x,
             text |-> escape_for_applescript(x)]>>

\* {x}: a replacement field holding the caller's string as it is
Raw(x) == <<[user |-> TRUE, escaped |-> FALSE, orig |-> x, text |-> x]>>

\* lines 106-172
list_notes_script(folder, account) ==
    IF Given(account) /\ Given(folder)
    THEN Code \o Fixed \o Code \o Empty \o Code \o Lit(Esc(account)) \o Code
         \o Lit(Esc(folder)) \o Code \o Fixed \o Code
    ELSE IF Given(account)
    THEN Code \o Fixed \o Code \o Empty \o Code \o Lit(Esc(account)) \o Code
         \o Fixed \o Code
    ELSE IF Given(folder)
    THEN Code \o Fixed \o Code \o Empty \o Code \o Lit(Esc(folder)) \o Code
         \o Fixed \o Code
    ELSE Code \o Fixed \o Code \o Empty \o Code \o Fixed \o Code

\* lines 188-254
create_note_script(title, body, folder, account) ==
    LET props == Lit(Esc(title)) \o Code \o Lit(Esc(body))
    IN  IF Given(account) /\ Given(folder)
        THEN Code \o Fixed \o Code \o Lit(Esc(account)) \o Code \o Lit(Esc(folder))
             \o Code \o props \o Code \o Fixed \o Code \o Fixed \o Code \o Fixed \o Code
        ELSE IF Given(account)
        THEN Code \o Fixed \o Code \o Lit(Esc(account)) \o Code
             \o props \o Code \o Fixed \o Code \o Fixed \o Code \o Fixed \o Code
        ELSE IF Given(folder)
        THEN Code \o Fixed \o Code \o Lit(Esc(folder)) \o Code
             \o props \o Code \o Fixed \o Code \o Fixed \o Code \o Fixed \o Code
             \o Fixed \o Code
        ELSE Code \o Fixed \o Code
             \o props \o Code \o Fixed \o Code \o Fixed \o Code \o Fixed \o Code

\* lines 267-312
read_note_script(title, folder, account) ==
    IF Given(account)
    THEN IF Given(folder)
         THEN Code \o Fixed \o Code \o Lit(Esc(account)) \o Code \o Lit(Esc(folder))
              \o Code \o Lit(Esc(title)) \o Code \o Fixed \o Code
         ELSE Code \o Fixed \o Code \o Lit(Esc(account)) \o Code
              \o Lit(Esc(title)) \o Code \o Fixed \o Code
    ELSE Code \o Fixed \o Code \o Lit(Esc(title)) \o Code \o Fixed \o Code

\* lines 325-349
search_notes_script(query) ==
    Code \o Fixed \o Code \o Empty \o Code \o Lit(Esc(Lower(query))) \o Code
    \o Fixed \o Code \o Fixed \o Code \o Fixed \o Code \o Fixed \o Code \o Fixed \o Code

\* lines 362-393; the folder argument is not used
delete_note_script(title, folder, account) ==
    IF Given(account)
    THEN Code \o Fixed \o Code \o Lit(Esc(account)) \o Code \o Lit(Esc(title)) \o Code
         \o Lit(Code \o Raw(title) \o Code) \o Code \o Fixed \o Code
    ELSE Code \o Fixed \o Code \o Lit(Esc(title)) \o Code
         \o Lit(Code \o Raw(title) \o Code) \o Code \o Fixed \o Code

\* lines 406-434
create_folder_script(name, account) ==
    IF Given(account)
    THEN Code \o Fixed \o Code \o Lit(Esc(account)) \o Code \o Lit(Esc(name)) \o Code
         \o Fixed \o Code \o Fixed \o Code \o Fixed \o Code
    ELSE Code \o Fixed \o Code \o Lit(Esc(name)) \o Code
         \o Fixed \o Code \o Fixed \o Code \o Fixed \o Code

\* lines 447-480
append_to_note_script(title, text, account) ==
    IF Given(account)
    THEN Code \o Fixed \o Code \o Lit(Esc(account)) \o Code \o Lit(Esc(title)) \o Code
         \o Fixed \o Code \o Lit(Esc(text)) \o Code
         \o Lit(Code \o Raw(title) \o Code) \o Code \o Fixed \o Code
    ELSE Code \o Fixed \o Code \o Lit(Esc(title)) \o Code
         \o Fixed \o Code \o Lit(Esc(text)) \o Code
         \o Lit(Code \o Raw(title) \o Code) \o Code \o Fixed \o Code

\* lines 59-69, 81-94, 493-507: scripts without replacement fields
list_accounts_script == Code \o Fixed \o Code \o Empty \o Code

list_folders_script ==
    Code \o Fixed \o Code \o Empty \o Code \o Fixed \o Code \o Fixed \o Code \o Fixed \o Code

get_note_count_script ==
    Code \o Fixed \o Code \o Fixed \o Code \o Fixed \o Code \o Fixed \o Code

\* the text of the f-string: its pieces one after the other, each character
\* tagged with whether it comes from the caller
Flatten(pieces) ==
    LET RECURSIVE flat(_)
        flat(ps) ==
            IF ps = <<>> THEN <<>>
            ELSE [i \in DOMAIN Head(ps).text |->
                     [ch |-> Head(ps).text[i], user |-> Head(ps).user]]
                 \o flat(Tail(ps))
    IN  flat(pieces)

\* the position in the text of the first character of piece k
StartOf(pieces, k) ==
    LET RECURSIVE len(_)
        len(j) == IF j = 0 THEN 0 ELSE Len(pieces[j].text) + len(j - 1)
    IN  len(k - 1) + 1

(***************************************************************************)
(* AppleScript's reading of a script text: a string literal opens at a     *)
(* double quote and closes at the next double quote that no backslash      *)
(* precedes; a backslash inside a literal takes the next character as it   *)
(* is.                                                                     *)
(***************************************************************************)
\* the role of every character of text: "code", "open", "close" (the quotes
\* delimiting a literal), "content", "escape" (a backslash inside a literal)
\* or "escaped" (the character after it)
Roles(text) ==
    LET RECURSIVE scan(_, _)
        scan(i, mode) ==
            IF i > Len(text) THEN <<>>
            ELSE IF mode = "code"
            THEN IF text[i].ch = "dq" THEN <<"open">> \o scan(i + 1, "str")
                 ELSE <<"code">> \o scan(i + 1, "code")
            ELSE IF mode = "esc"
            THEN <<"escaped">> \o scan(i + 1, "str")
            ELSE IF text[i].ch = "bs" THEN <<"escape">> \o scan(i + 1, "esc")
            ELSE IF text[i].ch = "dq" THEN <<"close">> \o scan(i + 1, "code")
            ELSE <<"content">> \o scan(i + 1, "str")
    IN  scan(1, "code")

\* the literal that opens at position open of text: the string it denotes and
\* the position of the quote that closes it (0 when the text ends first)
ReadLiteral(text, open) ==
    LET RECURSIVE read(_, _)
        read(i, acc) ==
            IF i > Len(text) THEN [value |-> acc, close |-> 0]
            ELSE IF text[i].ch = "dq" THEN [value |-> acc, close |-> i]
            ELSE IF text[i].ch = "bs"
            THEN IF i + 1 > Len(text) THEN [value |-> acc, close |-> 0]
                 ELSE read(i + 2, Append(acc, text[i + 1].ch))
            ELSE read(i + 1, Append(acc, text[i].ch))
    IN  read(open + 1, <<>>)

(***************************************************************************)
(* The notes commands up to the call of run_applescript.                   *)
(***************************************************************************)
NotesCommands == {"list-accounts", "list-folders", "list-notes", "create", "read",
                  "search", "delete", "create-folder", "append", "count"}

NoNotesArgs == [title |-> <<>>, body |-> <<>>, folder |-> <<>>, account |-> <<>>,
                text |-> <<>>, name |-> <<>>, query |-> <<>>, plaintext |-> FALSE]

\* the arguments argparse can hand to each command (lines 530-573)
NotesArgsOf(command) ==
    CASE command = "list-notes" ->
           {[NoNotesArgs EXCEPT !.folder = f, !.account = a] :
               f \in FieldValues, a \in FieldValues}
      [] command = "create" ->
           {[NoNotesArgs EXCEPT !.title = t, !.body = b, !.folder = f, !.account = a] :
               t \in StringsUpTo(MaxLen), b \in FieldValues,
               f \in FieldValues, a \in FieldValues}
      [] command \in {"read", "delete"} ->
           {[NoNotesArgs EXCEPT !.title = t, !.folder = f, !.account = a] :
               t \in StringsUpTo(MaxLen), f \in FieldValues, a \in FieldValues}
      [] command = "search" ->
           {[NoNotesArgs EXCEPT !.query = q] : q \in StringsUpTo(MaxLen)}
      [] command = "create-folder" ->
           {[NoNotesArgs EXCEPT !.name = n, !.account = a] :
               n \in StringsUpTo(MaxLen), a \in FieldValues}
      [] command = "append" ->
           {[NoNotesArgs EXCEPT !.title = t, !.text = x, !.account = a] :
               t \in StringsUpTo(MaxLen), x \in FieldValues, a \in FieldValues}
      [] OTHER -> {NoNotesArgs}

\* the function builds its script and hands it to run_applescript
Assemble(pieces) ==
    /\ npc = "start"
    /\ segs' = pieces
    /\ script' = Flatten(pieces)
    /\ npc' = "built"
    /\ UNCHANGED <<ncmd, nargs, nstore, ran, ndoc, brokerVars, pc, cmd, arg, procVars,
                   storeVars, dateVars>>

\* lines 59-70
list_accounts ==
    /\ ncmd = "list-accounts"
    /\ Assemble(list_accounts_script)

\* lines 81-95
list_folders ==
    /\ ncmd = "list-folders"
    /\ Assemble(list_folders_script)

\* lines 106-174
list_notes ==
    /\ ncmd = "list-notes"
    /\ Assemble(list_notes_script(nargs.folder, nargs.account))

\* lines 188-256
create_note ==
    /\ ncmd = "create"
    /\ Assemble(create_note_script(nargs.title, nargs.body, nargs.folder, nargs.account))

\* lines 267-314
read_note ==
    /\ ncmd = "read"
    /\ Assemble(read_note_script(nargs.title, nargs.folder, nargs.account))

\* lines 325-351
search_notes ==
    /\ ncmd = "search"
    /\ Assemble(search_notes_script(nargs.query))

\* lines 362-395
delete_note ==
    /\ ncmd = "delete"
    /\ Assemble(delete_note_script(nargs.title, nargs.folder, nargs.account))

\* lines 406-436
create_folder ==
    /\ ncmd = "create-folder"
    /\ Assemble(create_folder_script(nargs.name, nargs.account))

\* lines 447-482
append_to_note ==
    /\ ncmd = "append"
    /\ Assemble(append_to_note_script(nargs.title, nargs.text, nargs.account))

\* lines 493-508
get_note_count ==
    /\ ncmd = "count"
    /\ Assemble(get_note_count_script)

\* one invocation of notes_manager.py with a command and its arguments
InitScript ==
    /\ hostStatus = [c \in Caps |-> "NotDetermined"]
    /\ startStatus = hostStatus
    /\ InitManager
    /\ pc = "none"
    /\ cmd = "none"
    /\ arg = NoArgs
    /\ events = {}
    /\ reminders = {}
    /\ completed = {}
    /\ storeLog = <<>>
    /\ fetch = NoFetch
    /\ details = [i \in reminders |-> StoredDetails]
    /\ InitNoDates
    /\ InitProcess
    /\ ncmd \in NotesCommands
    /\ nargs \in NotesArgsOf(ncmd)
    /\ npc = "start"
    /\ segs = <<>>
    /\ script = <<>>
    /\ nstore = <<>>
    /\ ran = NotRun
    /\ ndoc = NoDoc

NextScript ==
    \/ list_accounts
    \/ list_folders
    \/ list_notes
    \/ create_note
    \/ read_note
    \/ search_notes
    \/ delete_note
    \/ create_folder
    \/ append_to_note
    \/ get_note_count

SpecScript == InitScript /\ [][NextScript]_vars

(***************************************************************************)
(* The Notes application as the scripts address it.  The store is a        *)
(* sequence of accounts in enumeration order; an account has a name and a  *)
(* sequence of folders, the first of them its default folder; a folder has *)
(* a name and a sequence of notes; a note has a name (its title) and a     *)
(* plain text.  "lf" is the line feed, "sp" a blank; a word in capitals    *)
(* or with blanks stands for that stretch of text.                         *)
(***************************************************************************)
Note(title, text) == [name |-> title, text |-> text]

Folder(name, notes) == [name |-> name, notes |-> notes]

Account(name, folders) == [name |-> name, folders |-> folders]

\* the sequences of a sequence of sequences, one after the other
Concat(seqs) ==
    LET RECURSIVE cat(_)
        cat(ss) == IF ss = <<>> THEN <<>> ELSE Head(ss) \o cat(Tail(ss))
    IN  cat(seqs)

\* `notes of a`: the notes of the account's folders
NotesOfAccount(a) == Concat([f \in DOMAIN a.folders |-> a.folders[f].notes])

\* mutation: the name is not looked at, the first element is taken
ByName_first(items, name) == IF items = <<>> THEN 0 ELSE 1

\* `account "x"`, `folder "x" of a`: the first element called name, 0 when
\* there is none (the reference then raises an error in the script)
ByName(items, name) ==
    LET hits == {i \in DOMAIN items : items[i].name = name}
    IN  IF hits = {} THEN 0 ELSE CHOOSE i \in hits : \A j \in hits : i <= j

\* `first note of a whose name is "x"`: the folder and the position in it of the
\* first note of the account called title, <<0, 0>> when there is none
FirstNote(a, title) ==
    LET hits == {p \in (DOMAIN a.folders) \X (1..Len(NotesOfAccount(a))) :
                    /\ p[2] \in DOMAIN a.folders[p[1]].notes
                    /\ a.folders[p[1]].notes[p[2]].name = title}
    IN  IF hits = {} THEN <<0, 0>>
        ELSE CHOOSE p \in hits :
                 \A q \in hits : p[1] < q[1] \/ (p[1] = q[1] /\ p[2] <= q[2])

\* `body of n`: the note's text as HTML
BodyOf(n) == <<"<div>">> \o n.text \o <<"</div>">>

\* the lines `x & linefeed` a script accumulates, one per entry
LinesOf(entries) == Concat([i \in DOMAIN entries |-> entries[i] \o <<"lf">>])

\* "ERROR: " & errMsg
ErrorLine(errMsg) == <<"ERROR:", errMsg>>

\* what running a script gives: the text it returns and the store it leaves
Ran(out, store) == [out |-> out, store |-> store]

\* the value of every literal of the script that holds an escaped replacement
\* field, in the order of the script, as AppleScript reads the literal
Fields(pieces) ==
    LET RECURSIVE collect(_)
        collect(k) ==
            IF k > Len(pieces) THEN <<>>
            ELSE (IF pieces[k].escaped
                  THEN <<ReadLiteral(Flatten(pieces), StartOf(pieces, k - 1)).value>>
                  ELSE <<>>) \o collect(k + 1)
    IN  collect(1)

\* the words of the literal that holds the raw {title} field (lines 374, 388,
\* 461, 475): "SUCCESS: Deleted note '<title>'" and the like
RawMessage(pieces) ==
    LET k == CHOOSE j \in DOMAIN pieces : pieces[j].user /\ ~pieces[j].escaped
        v == ReadLiteral(Flatten(pieces), StartOf(pieces, k - 2)).value
    IN  <<"SUCCESS:">> \o SubSeq(v, 2, Len(v) - 1)

\* lines 61-68
list_accounts_exec(store) ==
    Ran(LinesOf([a \in DOMAIN store |-> store[a].name]), store)

\* lines 83-93
list_folders_exec(store) ==
    Ran(Concat([a \in DOMAIN store |->
                  LinesOf([f \in DOMAIN store[a].folders |->
                             store[a].name \o <<" > ">> \o store[a].folders[f].name
                             \o <<" (", ToString(Len(store[a].folders[f].notes)), " notes)">>])]),
        store)

\* the entries "<account> > <title>" of some notes of account a
Entries(a, notes) == LinesOf([n \in DOMAIN notes |-> a.name \o <<" > ">> \o notes[n].name])

\* the entries "<title>" of some notes
Titles(notes) == LinesOf([n \in DOMAIN notes |-> notes[n].name])

\* mutation: without an account the loop stops after the first account
list_notes_exec_firstAccount(store, folder, account, lits) ==
    IF Given(account) \/ store = <<>>
    THEN Ran(ErrorLine("errMsg"), store)
    ELSE Ran(Entries(store[1], NotesOfAccount(store[1])), store)

\* lines 109-172; lits are the literals of the script
list_notes_exec(store, folder, account, lits) ==
    IF Given(account) /\ Given(folder)
    THEN LET a == ByName(store, lits[1])
             f == IF a = 0 THEN 0 ELSE ByName(store[a].folders, lits[2])
         IN  IF f = 0 THEN Ran(ErrorLine("errMsg"), store)
             ELSE Ran(Titles(store[a].folders[f].notes), store)
    ELSE IF Given(account)
    THEN LET a == ByName(store, lits[1])
         IN  IF a = 0 THEN Ran(ErrorLine("errMsg"), store)
             ELSE Ran(Titles(NotesOfAccount(store[a])), store)
    ELSE IF Given(folder)
    THEN Ran(Concat([a \in DOMAIN store |->
                       LET f == ByName(store[a].folders, lits[1])
                       IN  IF f = 0 THEN <<>>
                           ELSE Entries(store[a], store[a].folders[f].notes)]),
             store)
    ELSE Ran(Concat([a \in DOMAIN store |-> Entries(store[a], NotesOfAccount(store[a]))]),
             store)

\* `make new note at f with properties {name:title, body:body}` in folder f of
\* account a: the new note comes first in the folder
MakeNote(store, a, f, title, body) ==
    [store EXCEPT ![a].folders[f].notes = <<Note(title, body)>> \o @]

\* mutation: the loop over the accounts does not stop at the first note made
create_note_everyAccount(store, name, title, body, refuses) ==
    LET hits == {a \in DOMAIN store :
                    ByName(store[a].folders, name) /= 0 /\ a \notin refuses}
    IN  IF hits = {} THEN Ran(ErrorLine("Folder not found"), store)
        ELSE Ran(<<"SUCCESS:", "Created note">> \o title,
                 [a \in DOMAIN store |->
                    IF a \in hits
                    THEN MakeNote(store, a, ByName(store[a].folders, name), title, body)[a]
                    ELSE store[a]])

\* lines 222-240: `repeat with a in accounts`, a `try` around the folder
\* reference, the `make` and the `return`, and "ERROR: Folder not found" after
\* the loop; refuses: the accounts in which `make new note` raises an error
create_note_anyAccount(store, name, title, body, refuses) ==
    LET hits == {a \in DOMAIN store :
                    ByName(store[a].folders, name) /= 0 /\ a \notin refuses}
    IN  IF hits = {} THEN Ran(ErrorLine("Folder not found"), store)
        ELSE LET a == CHOOSE i \in hits : \A j \in hits : i <= j
             IN  Ran(<<"SUCCESS:", "Created note">> \o title \o <<" in ">>
                     \o store[a].name,
                     MakeNote(store, a, ByName(store[a].folders, name), title, body))

\* lines 193-254; refuses: the accounts in which `make new note` raises an error
create_note_exec(store, folder, account, lits, refuses) ==
    IF Given(account) /\ Given(folder)
    THEN LET a == ByName(store, lits[1])
             f == IF a = 0 THEN 0 ELSE ByName(store[a].folders, lits[2])
         IN  IF f = 0 \/ a \in refuses THEN Ran(ErrorLine("errMsg"), store)
             ELSE Ran(<<"SUCCESS:", "Created note">> \o lits[3],
                      MakeNote(store, a, f, lits[3], lits[4]))
    ELSE IF Given(account)
    THEN LET a == ByName(store, lits[1])
         IN  IF a = 0 \/ store[a].folders = <<>> \/ a \in refuses
             THEN Ran(ErrorLine("errMsg"), store)
             ELSE Ran(<<"SUCCESS:", "Created note">> \o lits[2],
                      MakeNote(store, a, 1, lits[2], lits[3]))
    ELSE IF Given(folder)
    THEN create_note_anyAccount(store, lits[1], lits[2], lits[3], refuses)
    ELSE IF store = <<>> \/ store[1].folders = <<>> \/ 1 \in refuses
    THEN Ran(ErrorLine("errMsg"), store)
    ELSE Ran(<<"SUCCESS:", "Created note">> \o lits[1] \o <<" in ">> \o store[1].name,
             MakeNote(store, 1, 1, lits[1], lits[2]))

\* `body of n` or `plaintext of n`, line 270
Content(n, plaintext) == IF plaintext THEN n.text ELSE BodyOf(n)

\* mutation: the last account that has such a note is taken
FirstAccountWith_last(store, title) ==
    LET hits == {a \in DOMAIN store : FirstNote(store[a], title) /= <<0, 0>>}
    IN  IF hits = {} THEN 0 ELSE CHOOSE i \in hits : \A j \in hits : i >= j

\* the first account, in enumeration order, that has a note called title; 0 when
\* none has: the `repeat with a in accounts / try ... end try` loops
FirstAccountWith(store, title) ==
    LET hits == {a \in DOMAIN store : FirstNote(store[a], title) /= <<0, 0>>}
    IN  IF hits = {} THEN 0 ELSE CHOOSE i \in hits : \A j \in hits : i <= j

\* the note at position p = <<folder, index>> of account a
NoteAt(a, p) == a.folders[p[1]].notes[p[2]]

\* lines 272-312
read_note_exec(store, folder, account, plaintext, lits) ==
    IF Given(account) /\ Given(folder)
    THEN LET a == ByName(store, lits[1])
             f == IF a = 0 THEN 0 ELSE ByName(store[a].folders, lits[2])
             n == IF f = 0 THEN 0 ELSE ByName(store[a].folders[f].notes, lits[3])
         IN  IF n = 0 THEN Ran(ErrorLine("errMsg"), store)
             ELSE Ran(Content(store[a].folders[f].notes[n], plaintext), store)
    ELSE IF Given(account)
    THEN LET a == ByName(store, lits[1])
             p == IF a = 0 THEN <<0, 0>> ELSE FirstNote(store[a], lits[2])
         IN  IF p = <<0, 0>> THEN Ran(ErrorLine("errMsg"), store)
             ELSE Ran(Content(NoteAt(store[a], p), plaintext), store)
    ELSE LET a == FirstAccountWith(store, lits[1])
         IN  IF a = 0 THEN Ran(ErrorLine("Note not found"), store)
             ELSE Ran(Content(NoteAt(store[a], FirstNote(store[a], lits[1])), plaintext),
                      store)

\* text contains part: part is a stretch of text
Contains(text, part) ==
    \E i \in 0..(Len(text) - Len(part)) : SubSeq(text, i + 1, i + Len(part)) = part

\* mutation: the note's text is compared as it is
tr_lower_none(text) == text

\* lines 339-340: echo <text> | tr '[:upper:]' '[:lower:]'
tr_lower(text) == [i \in DOMAIN text |-> LowerChar(text[i])]

\* lines 331-347
search_notes_exec(store, lits) ==
    LET matching(a) ==
            SelectSeq(NotesOfAccount(store[a]),
                      LAMBDA n : \/ Contains(tr_lower(n.text), lits[1])
                                 \/ Contains(tr_lower(n.name), lits[1]))
    IN  Ran(Concat([a \in DOMAIN store |-> Entries(store[a], matching(a))]), store)

\* mutation: every note of the store that has the name of the note at p goes
DeleteAt_sameName(store, a, p) ==
    LET title == store[a].folders[p[1]].notes[p[2]].name
    IN  [i \in DOMAIN store |->
           Account(store[i].name,
                   [f \in DOMAIN store[i].folders |->
                      Folder(store[i].folders[f].name,
                             SelectSeq(store[i].folders[f].notes,
                                       LAMBDA n : n.name /= title))])]

\* `delete n` for the note at position p of account a
DeleteAt(store, a, p) ==
    [store EXCEPT ![a].folders[p[1]].notes =
        SubSeq(@, 1, p[2] - 1) \o SubSeq(@, p[2] + 1, Len(@))]

\* lines 366-393; msg is the text of the SUCCESS literal
delete_note_exec(store, account, lits, msg) ==
    IF Given(account)
    THEN LET a == ByName(store, lits[1])
             p == IF a = 0 THEN <<0, 0>> ELSE FirstNote(store[a], lits[2])
         IN  IF p = <<0, 0>> THEN Ran(ErrorLine("errMsg"), store)
             ELSE Ran(msg, DeleteAt(store, a, p))
    ELSE LET a == FirstAccountWith(store, lits[1])
         IN  IF a = 0 THEN Ran(ErrorLine("Note not found"), store)
             ELSE Ran(msg \o <<" from ">> \o store[a].name,
                      DeleteAt(store, a, FirstNote(store[a], lits[1])))

\* lines 410-434
create_folder_exec(store, account, lits) ==
    LET a == IF Given(account) THEN ByName(store, lits[1])
             ELSE IF store = <<>> THEN 0 ELSE 1
        name == IF Given(account) THEN lits[2] ELSE lits[1]
    IN  IF a = 0 \/ ByName(store[a].folders, name) /= 0
        THEN Ran(ErrorLine("errMsg"), store)
        ELSE Ran(<<"SUCCESS:", "Created folder">> \o name \o <<" in ">> \o store[a].name,
                 [store EXCEPT ![a].folders = Append(@, Folder(name, <<>>))])

\* `set body of n to currentBody & "<br>" & text` for the note at p of account a
AppendAt(store, a, p, text) ==
    [store EXCEPT ![a].folders[p[1]].notes[p[2]].text = @ \o <<"<br>">> \o text]

\* lines 452-480; msg is the text of the SUCCESS literal
append_to_note_exec(store, account, lits, msg) ==
    IF Given(account)
    THEN LET a == ByName(store, lits[1])
             p == IF a = 0 THEN <<0, 0>> ELSE FirstNote(store[a], lits[2])
         IN  IF p = <<0, 0>> THEN Ran(ErrorLine("errMsg"), store)
             ELSE Ran(msg, AppendAt(store, a, p, lits[3]))
    ELSE LET a == FirstAccountWith(store, lits[1])
         IN  IF a = 0 THEN Ran(ErrorLine("Note not found"), store)
             ELSE Ran(msg \o <<" in ">> \o store[a].name,
                      AppendAt(store, a, FirstNote(store[a], lits[1]), lits[2]))

\* lines 495-506
get_note_count_exec(store) ==
    Ran(<<ToString(Len(Concat([a \in DOMAIN store |-> NotesOfAccount(store[a])]))), " total | ">>
        \o Concat([a \in DOMAIN store |->
                     store[a].name \o <<": ", ToString(Len(NotesOfAccount(store[a]))), " notes">>]),
        store)

\* what the Notes application does with the script of the command; refuses:
\* the accounts in which `make new note` raises an error
Execute(command, args, pieces, store, refuses) ==
    CASE command = "list-accounts" -> list_accounts_exec(store)
      [] command = "list-folders" -> list_folders_exec(store)
      [] command = "list-notes" ->
           list_notes_exec(store, args.folder, args.account, Fields(pieces))
      [] command = "create" ->
           create_note_exec(store, args.folder, args.account, Fields(pieces), refuses)
      [] command = "read" ->
           read_note_exec(store, args.folder, args.account, args.plaintext, Fields(pieces))
      [] command = "search" -> search_notes_exec(store, Fields(pieces))
      [] command = "delete" ->
           delete_note_exec(store, args.account, Fields(pieces), RawMessage(pieces))
      [] command = "create-folder" -> create_folder_exec(store, args.account, Fields(pieces))
      [] command = "append" ->
           append_to_note_exec(store, args.account, Fields(pieces), RawMessage(pieces))
      [] command = "count" -> get_note_count_exec(store)

(***************************************************************************)
(* run_applescript and the decoding of what it returns.                    *)
(***************************************************************************)
Whitespace == {"lf", "sp"}

\* str.strip()
Strip(text) ==
    LET keep == {i \in DOMAIN text : text[i] \notin Whitespace}
    IN  IF keep = {} THEN <<>>
        ELSE SubSeq(text, CHOOSE i \in keep : \A j \in keep : i <= j,
                          CHOOSE i \in keep : \A j \in keep : i >= j)

\* str.split("\n")
Split(text) ==
    LET RECURSIVE split(_, _)
        split(i, line) ==
            IF i > Len(text) THEN <<line>>
            ELSE IF text[i] = "lf" THEN <<line>> \o split(i + 1, <<>>)
            ELSE split(i + 1, Append(line, text[i]))
    IN  split(1, <<>>)

\* [line.strip() for line in output.split("\n") if line.strip()]
ParseLines(output) ==
    LET lines == Split(output)
        stripped == [i \in DOMAIN lines |-> Strip(lines[i])]
    IN  SelectSeq(stripped, LAMBDA line : line /= <<>>)

\* the functions that test output.startswith("ERROR:"): lines 179, 261, 319,
\* 400, 441, 487; list_accounts, list_folders, search_notes and get_note_count
\* do not
ChecksSentinel(command) ==
    command \in {"list-notes", "create", "read", "delete", "create-folder", "append"}

\* output.startswith("ERROR:")
StartsWithError(output) == output /= <<>> /\ output[1] = "ERROR:"

\* the dict a function returns for what run_applescript returned
Decode(command, r) ==
    IF ~r.success
    THEN [NoDoc EXCEPT !.returned = TRUE, !.error = r.output]
    ELSE IF ChecksSentinel(command) /\ StartsWithError(r.output)
    THEN [NoDoc EXCEPT !.returned = TRUE, !.error = r.output]
    ELSE IF command \in {"list-accounts", "list-folders", "list-notes", "search"}
    THEN [NoDoc EXCEPT !.returned = TRUE, !.success = TRUE, !.notes = ParseLines(r.output)]
    ELSE IF command = "read"
    THEN [NoDoc EXCEPT !.returned = TRUE, !.success = TRUE, !.content = r.output]
    ELSE [NoDoc EXCEPT !.returned = TRUE, !.success = TRUE, !.message = r.output]

\* mutation: TimeoutExpired is not caught
CatchesTimeout_not == FALSE

\* line 48: except subprocess.TimeoutExpired
CatchesTimeout == TRUE

\* line 38: subprocess.run starts osascript with the script, or raises at once
\* (no such program, no process to be had) and line 50 catches the exception
interpreter_starts ==
    /\ npc = "built"
    /\ elapsed' = 0
    /\ \/ /\ npc' = "running"
          /\ UNCHANGED ran
       \/ /\ npc' = "ran"
          /\ ran' = [ran EXCEPT !.returned = TRUE, !.output = <<"str(e)">>,
                                 !.how = "exception"]
    /\ UNCHANGED <<hostStatus, startStatus, authorized, cur, calls, slots, waitRet,
                   result, lastResult, pc, cmd, arg, procVars, storeVars, dateVars,
                   ncmd, nargs, segs, script, nstore, ndoc>>

\* one unit of time passes while subprocess.run waits for osascript
interpreter_tick ==
    /\ npc = "running"
    /\ elapsed < Timeout
    /\ elapsed' = elapsed + 1
    /\ UNCHANGED <<hostStatus, startStatus, authorized, cur, calls, slots, waitRet,
                   result, lastResult, pc, cmd, arg, procVars, storeVars, dateVars, notesVars>>

\* the Notes application carries the script out; of the scripts only those of
\* create make a note, in ran.refused the accounts that refuse it this time
notes_executes ==
    /\ npc = "running"
    /\ ran.how = "none"
    /\ \E refuses \in (IF ncmd = "create" THEN SUBSET (DOMAIN nstore) ELSE {{}}) :
         LET r == Execute(ncmd, nargs, segs, nstore, refuses)
         IN  /\ nstore' = r.store
             /\ ran' = [ran EXCEPT !.how = "executed", !.output = r.out,
                                   !.refused = refuses]
    /\ UNCHANGED <<brokerVars, pc, cmd, arg, procVars, storeVars, dateVars,
                   ncmd, nargs, npc, segs, script, ndoc>>

\* lines 44-47: osascript ends within the timeout, with exit code 0 and the
\* script's result on its standard output, or, the script not carried out,
\* with another exit code and a message on its standard error
interpreter_exits ==
    /\ npc = "running"
    /\ elapsed < Timeout
    /\ IF ran.how = "executed"
       THEN ran' = [ran EXCEPT !.returned = TRUE, !.success = TRUE,
                               !.output = Strip(ran.output), !.how = "exit0"]
       ELSE ran' = [ran EXCEPT !.returned = TRUE, !.output = <<"stderr">>,
                               !.how = "exit1"]
    /\ npc' = "ran"
    /\ elapsed' = 0
    /\ UNCHANGED <<hostStatus, startStatus, authorized, cur, calls, slots, waitRet,
                   result, lastResult, pc, cmd, arg, procVars, storeVars, dateVars,
                   ncmd, nargs, segs, script, nstore, ndoc>>

\* lines 42 and 48-49: osascript has not ended after 30 units, subprocess.run
\* kills it and raises TimeoutExpired
interpreter_timeout ==
    /\ npc = "running"
    /\ elapsed >= Timeout
    /\ IF CatchesTimeout
       THEN /\ ran' = [ran EXCEPT !.returned = TRUE, !.success = FALSE,
                                   !.output = <<"AppleScript execution timed out">>,
                                   !.how = "timeout"]
            /\ npc' = "ran"
            /\ UNCHANGED procVars
       ELSE /\ raised' = <<"TimeoutExpired">>
            /\ stderr' = Append(stderr, <<"Traceback", "TimeoutExpired">>)
            /\ exited' = TRUE
            /\ exitCode' = 1
            /\ npc' = "done"
            /\ UNCHANGED <<ran, stdout>>
    /\ elapsed' = 0
    /\ UNCHANGED <<hostStatus, startStatus, authorized, cur, calls, slots, waitRet,
                   result, lastResult, pc, cmd, arg, storeVars, dateVars,
                   ncmd, nargs, segs, script, nstore, ndoc>>

\* the rest of the function after run_applescript: lines 72-78, 97-103, 176-185,
\* 258-264, 316-322, 353-359, 397-403, 438-444, 484-490, 510-513
function_returns ==
    /\ npc = "ran"
    /\ ndoc' = Decode(ncmd, ran)
    /\ npc' = "returned"
    /\ UNCHANGED <<brokerVars, pc, cmd, arg, procVars, storeVars, dateVars,
                   ncmd, nargs, segs, script, nstore, ran>>

\* the document main prints for the dict
NotesDocument(doc) ==
    [json |-> TRUE, shape |-> "object",
     success |-> IF doc.success THEN "true" ELSE "false",
     error |-> doc.error, items |-> {}, records |-> {}, text |-> <<>>]

\* lines 604-609: print(json.dumps(result)); sys.exit(1) when success is false
notes_main_prints ==
    /\ npc = "returned"
    /\ stdout' = Append(stdout, NotesDocument(ndoc))
    /\ exited' = TRUE
    /\ exitCode' = IF ndoc.success THEN 0 ELSE 1
    /\ npc' = "done"
    /\ UNCHANGED <<brokerVars, pc, cmd, arg, stderr, raised, storeVars, dateVars,
                   ncmd, nargs, segs, script, nstore, ran, ndoc>>

(***************************************************************************)
(* One invocation of notes_manager.py against a store of two accounts.     *)
(***************************************************************************)
\* the notes a folder called Inbox may hold
InboxNotes ==
    {<<>>,
     <<Note(<<"T">>, <<"M", "i">>)>>,
     <<Note(<<"ERROR:", "x">>, <<>>), Note(<<"U">>, <<"k">>)>>}

\* the notes a folder called Y may hold
YNotes == {<<Note(<<"T">>, <<"k">>)>>, <<Note(<<"U">>, <<"M">>)>>}

\* the folders an account may have
FolderLayouts ==
    {<<Folder(<<"Inbox">>, i)>> : i \in InboxNotes}
    \cup {<<Folder(<<"Inbox">>, i), Folder(<<"Y">>, y)>> : i \in InboxNotes, y \in YNotes}

\* the folders the second account may have
SecondLayouts ==
    {<<Folder(<<"Inbox">>, <<>>)>>,
     <<Folder(<<"Inbox">>, <<Note(<<"T">>, <<"M", "i">>)>>)>>,
     <<Folder(<<"Inbox">>, <<Note(<<"T">>, <<"M", "i">>)>>),
       Folder(<<"Y">>, <<Note(<<"U">>, <<"M">>)>>)>>,
     <<Folder(<<"Inbox">>, <<Note(<<"ERROR:", "x">>, <<>>), Note(<<"U">>, <<"k">>)>>),
       Folder(<<"Y">>, <<Note(<<"T">>, <<"i", "k">>)>>)>>}

\* the stores: accounts A and X, in this order
Stores ==
    {<<Account(<<"A">>, a), Account(<<"X">>, x)>> :
        a \in FolderLayouts, x \in SecondLayouts}

\* the names a caller passes: of an account or folder that may exist, of one
\* that does not, or none
AccountArgs == {<<>>, <<"A">>, <<"X">>, <<"B">>}
FolderArgs == {<<>>, <<"Inbox">>, <<"Y">>, <<"Z">>}
TitleArgs == {<<"T">>, <<"V">>}
QueryArgs == {<<"m", "i">>, <<"M">>, <<"k">>, <<"z">>}

\* the arguments of each command against these stores
StoreArgsOf(command) ==
    CASE command = "list-notes" ->
           {[NoNotesArgs EXCEPT !.folder = f, !.account = a] :
               f \in FolderArgs, a \in AccountArgs}
      [] command = "create" ->
           {[NoNotesArgs EXCEPT !.title = <<"V">>, !.body = <<"k">>,
                                !.folder = f, !.account = a] :
               f \in FolderArgs, a \in AccountArgs}
      [] command = "read" ->
           {[NoNotesArgs EXCEPT !.title = t, !.folder = f, !.account = a,
                                !.plaintext = p] :
               t \in TitleArgs, f \in {<<>>, <<"Y">>}, a \in AccountArgs, p \in BOOLEAN}
      [] command = "delete" ->
           {[NoNotesArgs EXCEPT !.title = t, !.folder = f, !.account = a] :
               t \in TitleArgs, f \in {<<>>, <<"Y">>}, a \in AccountArgs}
      [] command = "search" ->
           {[NoNotesArgs EXCEPT !.query = q] : q \in QueryArgs}
      [] command = "create-folder" ->
           {[NoNotesArgs EXCEPT !.name = n, !.account = a] :
               n \in {<<"Y">>, <<"Z">>}, a \in {<<>>, <<"X">>}}
      [] command = "append" ->
           {[NoNotesArgs EXCEPT !.title = t, !.text = <<"k">>, !.account = a] :
               t \in TitleArgs, a \in {<<>>, <<"X">>}}
      [] OTHER -> {NoNotesArgs}

\* one invocation against one of the given stores
InitNotesWith(stores) ==
    /\ hostStatus = [c \in Caps |-> "NotDetermined"]
    /\ startStatus = hostStatus
    /\ InitManager
    /\ pc = "none"
    /\ cmd = "none"
    /\ arg = NoArgs
    /\ events = {}
    /\ reminders = {}
    /\ completed = {}
    /\ storeLog = <<>>
    /\ fetch = NoFetch
    /\ details = [i \in reminders |-> StoredDetails]
    /\ InitNoDates
    /\ InitProcess
    /\ ncmd \in NotesCommands
    /\ nargs \in StoreArgsOf(ncmd)
    /\ npc = "start"
    /\ segs = <<>>
    /\ script = <<>>
    /\ nstore \in stores
    /\ ran = NotRun
    /\ ndoc = NoDoc

InitNotes == InitNotesWith(Stores)

NextNotes ==
    \/ list_accounts
    \/ list_folders
    \/ list_notes
    \/ create_note
    \/ read_note
    \/ search_notes
    \/ delete_note
    \/ create_folder
    \/ append_to_note
    \/ get_note_count
    \/ interpreter_starts
    \/ interpreter_tick
    \/ notes_executes
    \/ interpreter_exits
    \/ interpreter_timeout
    \/ function_returns
    \/ notes_main_prints

SpecNotes == InitNotes /\ [][NextNotes]_vars

\* one invocation against a store in which both accounts have both folders
InitRun ==
    InitNotesWith({<<Account(<<"A">>, <<Folder(<<"Inbox">>, <<Note(<<"T">>, <<"M", "i">>)>>),
                                       Folder(<<"Y">>, <<Note(<<"U">>, <<"M">>)>>)>>),
                     Account(<<"X">>, <<Folder(<<"Inbox">>, <<Note(<<"T">>, <<"M", "i">>)>>),
                                       Folder(<<"Y">>, <<Note(<<"U">>, <<"M">>)>>)>>)>>})

SpecRun == InitRun /\ [][NextNotes]_vars

\* the step of main that calls the function of the command
CallsFunction ==
    \/ list_accounts
    \/ list_folders
    \/ list_notes
    \/ create_note
    \/ read_note
    \/ search_notes
    \/ delete_note
    \/ create_folder
    \/ append_to_note
    \/ get_note_count

\* time passes and the process is scheduled: its own steps are taken; the
\* Notes application is under no obligation to carry the script out, nor
\* osascript to end
FairRun ==
    /\ SpecRun
    /\ WF_vars(CallsFunction)
    /\ WF_vars(interpreter_starts)
    /\ WF_vars(interpreter_tick)
    /\ WF_vars(interpreter_timeout)
    /\ WF_vars(function_returns)
    /\ WF_vars(notes_main_prints)


(***************************************************************************)
(* Claims about the access bridge.                                         *)
(***************************************************************************)
\* a request_*_access call has returned to its caller
Returned == pc \in {"idle", "gate"} /\ calls > 0

\* the step that enters request_*_access
CallBegins == calls' = calls + 1

\* C1: when the host reports NotDetermined and the completion callback never
\* fires, request_*_access leaves event.wait only once the 30-unit timeout has
\* elapsed, returns False (Denied), and always does return: a caller blocked in
\* the wait is eventually back in its caller.
C1_TimeoutDenied ==
    /\ [][(pc = "wait" /\ pc' /= "wait" /\ slots[Cur].cb = "pending")
             => elapsed >= Timeout]_vars
    /\ [][(pc = "return" /\ pc' /= "return" /\ slots'[Cur].cb = "pending")
             => (result' = FALSE /\ elapsed' >= Timeout)]_vars
    /\ (pc = "wait") ~> (pc = "idle")

\* C1 witness: a call that waited, whose callback never fired, has returned False
\* after the full timeout
C1_Witness ==
    /\ Returned
    /\ waitRet = "timeout"
    /\ slots[Cur].cb = "pending"
    /\ result = FALSE
    /\ elapsed = Timeout

\* C2: the grant bridge is a single-slot wait; the callback writes the result at
\* most once, and a callback arriving after the waiter's timeout has elapsed
\* (event.wait returned False) changes neither what the call returns nor the
\* recorded flag: such a call returns False and records False.
C2_LateCallbackIgnored ==
    /\ \A k \in DOMAIN slots : slots[k].writes <= 1
    /\ (Returned /\ waitRet = "timeout")
          => (result = FALSE /\ authorized[cur] = FALSE)

\* C6: when the host already reports Authorized, the call returns True in the
\* same step: no grant request is sent and nothing is waited for.
C6_GrantedImmediate ==
    [][(CallBegins /\ hostStatus[cur'] = "Authorized")
          => /\ pc' = Continuation
             /\ result' = TRUE
             /\ slots' = slots
             /\ elapsed' = elapsed]_vars

\* C6 witness: a call on an Authorized capability has returned True with no
\* grant request ever sent for it
C6_Witness ==
    /\ Returned
    /\ hostStatus[cur] = "Authorized"
    /\ waitRet = "none"
    /\ result = TRUE
    /\ RequestCount(cur) = 0

\* C7: when the host reports the capability as already denied, the call returns
\* False in the same step: no grant request is sent and nothing is waited for.
C7_DeniedImmediate ==
    [][(CallBegins /\ hostStatus[cur'] \in {"Denied", "Restricted"})
          => /\ pc' = Continuation
             /\ result' = FALSE
             /\ slots' = slots
             /\ elapsed' = elapsed]_vars

\* C7 witness: a call on a Denied capability has returned False with no grant
\* request ever sent for it
C7_Witness ==
    /\ Returned
    /\ hostStatus[cur] = "Denied"
    /\ waitRet = "none"
    /\ result = FALSE
    /\ RequestCount(cur) = 0

\* the authorization state of capability c as its callers see it: what the host
\* reported at process start until a call has returned, what the last call
\* returned afterwards
BrokerState(c) ==
    IF lastResult[c] = "none"
    THEN IF startStatus[c] = "Authorized" THEN "Granted"
         ELSE IF startStatus[c] = "NotDetermined" THEN "Undetermined"
         ELSE "Denied"
    ELSE IF lastResult[c] = "granted" THEN "Granted" ELSE "Denied"

\* C8: per capability, over any sequence of calls in one process, the
\* authorization state leaves Undetermined at most once and then never changes
\* (Granted stays Granted, Denied stays Denied), and at most one grant request
\* is ever sent to the host.
C8_DecidedOnce ==
    [][\A c \in Caps :
          /\ RequestCount(c)' <= 1
          /\ (BrokerState(c) /= "Undetermined" => BrokerState(c)' = BrokerState(c))]_vars

(***************************************************************************)
(* Claims about the calendar/reminder command surface.                     *)
(***************************************************************************)
\* C5: no store query or mutation is issued before the access request for the
\* capability it needs has returned granted; a command whose access request
\* returned not granted issues no store operation and ends with a failure.
C5_AccessGatesStore ==
    /\ \A i \in DOMAIN storeLog : lastResult[storeLog[i].cap] = "granted"
    /\ pc = "handler" => result = TRUE
    /\ (pc = "exited" /\ result = FALSE) => (storeLog = <<>> /\ exitCode /= 0)

\* C5 witness: a command that was granted access through the prompt has issued
\* its store operations
C5_Witness ==
    /\ pc = "exited"
    /\ waitRet = "set"
    /\ result = TRUE
    /\ storeLog /= <<>>
    /\ lastResult[storeLog[1].cap] = "granted"

\* the JSON error envelope {"success": false, "error": <message>}
ErrorDocument(message) ==
    [json |-> TRUE, shape |-> "object", success |-> "false", error |-> message,
     items |-> {}, records |-> {}, text |-> <<>>]

\* C9: every command, on every outcome, prints exactly one JSON document to
\* standard output: success false with an error message and a non-zero exit
\* code on failure, success true and exit code zero on success.
C9_OneJsonDocument ==
    exited =>
        /\ Len(stdout) = 1
        /\ stdout[1].json
        /\ IF exitCode = 0
           THEN stdout[1].success = "true"
           ELSE stdout[1].success = "false" /\ stdout[1].error /= <<>>

\* C10: delete-event with an identifier the store does not know ends with the
\* JSON document {"success": false, "error": "Event '<id>' not found"} and a
\* non-zero exit code, no exception leaves the command, and the store is
\* unchanged.
C10_DeleteUnknownEvent ==
    [][(pc = "handler" /\ pc' = "exited" /\ cmd = "delete-event" /\ arg.id \notin events)
          => /\ exitCode' /= 0
             /\ raised' = NoException
             /\ stdout' = <<ErrorDocument(<<"Event", arg.id, "not found">>)>>
             /\ events' = events]_vars

(***************************************************************************)
(* Claims about the scripts of the notes surface.                          *)
(***************************************************************************)
\* a character of the caller acts as script text: it lies outside every
\* literal or delimits one, or it escapes a quote of the template
Injected(text) ==
    LET r == Roles(text)
    IN  \E i \in DOMAIN text :
           \/ text[i].user /\ r[i] \in {"code", "open", "close"}
           \/ ~text[i].user /\ text[i].ch = "dq" /\ r[i] = "escaped"

\* C3: in every notes operation and branch, every caller-supplied string is
\* passed through escape_for_applescript wherever it is put into the script,
\* so that no caller-supplied character ends a quoted literal of the script or
\* becomes script text.
C3_NoInjection ==
    npc = "built" => ~Injected(script)

\* C4: escape_for_applescript(x) placed between double quotes is read back by
\* the literal syntax as exactly x, and the literal closes at the quote added
\* after it, never at a character of x.
C4_EscapeRoundTrip ==
    npc = "built" =>
        \A k \in DOMAIN segs :
            segs[k].escaped =>
                ReadLiteral(script, StartOf(segs, k) - 1)
                  = [value |-> segs[k].orig,
                     close |-> StartOf(segs, k) + Len(segs[k].text)]

\* C4 witness: a script holds the escaped form of a string with a double quote
\* followed by a backslash, and its literal reads back as that string
C4_Witness ==
    /\ npc = "built"
    /\ \E k \in DOMAIN segs :
          /\ segs[k].escaped
          /\ segs[k].orig = <<"a", "dq", "bs">>
          /\ segs[k].text = <<"a", "bs", "dq", "bs", "bs">>
          /\ ReadLiteral(script, StartOf(segs, k) - 1).value = segs[k].orig

(***************************************************************************)
(* C11: a reminder fetch whose callback does not fire within the 30-unit   *)
(* wait is reported as a failure: list-reminders then prints no record     *)
(* array and ends with a failure (a non-zero exit code or an error         *)
(* document), not with a normal result.                                    *)
(***************************************************************************)
C11_FetchTimeoutFails ==
    (exited /\ cmd = "list-reminders" /\ fetch.ret = "timeout")
        => /\ \A i \in DOMAIN stdout : stdout[i].shape /= "array"
           /\ \/ exitCode /= 0
              \/ \E i \in DOMAIN stdout : stdout[i].success = "false"

(***************************************************************************)
(* C12: a container name that is supplied and that no container bears      *)
(* makes the operation fail: list-reminders --list L with no list titled L *)
(* does not end as a success, and list-notes --folder F (with or without   *)
(* an account) with no folder F in the accounts it covers does not return  *)
(* a successful result.                                                    *)
(***************************************************************************)
C12_MissingContainerFails ==
    /\ (exited /\ cmd = "list-reminders" /\ arg.name /= "none"
           /\ get_reminder_list_by_name(arg.name) = 0)
          => exitCode /= 0
    /\ (ndoc.returned /\ ncmd = "list-notes" /\ Given(nargs.folder)
           /\ \A a \in DOMAIN nstore :
                  (Given(nargs.account) => nstore[a].name = nargs.account)
                     => ByName(nstore[a].folders, nargs.folder) = 0)
          => ~ndoc.success

(***************************************************************************)
(* Claims about the notes commands against a store.                        *)
(***************************************************************************)
\* both an account and a folder are named on the command line
Scoped == Given(nargs.account) /\ Given(nargs.folder)

\* the store has an account with the given name that has a folder with the
\* given name
HasTarget ==
    \E a \in DOMAIN nstore :
        /\ nstore[a].name = nargs.account
        /\ \E f \in DOMAIN nstore[a].folders : nstore[a].folders[f].name = nargs.folder

\* where that folder is: <<account, folder>>
Target ==
    CHOOSE p \in (DOMAIN nstore) \X (1..2) :
        /\ nstore[p[1]].name = nargs.account
        /\ p[2] \in DOMAIN nstore[p[1]].folders
        /\ nstore[p[1]].folders[p[2]].name = nargs.folder

\* the notes of that folder
TargetNotes == nstore[Target[1]].folders[Target[2]].notes

\* the function of the command returns its dict in this step
Returns == ~ndoc.returned /\ ndoc'.returned

Covered(a) ==
    IF Given(nargs.folder)
    THEN Concat([f \in DOMAIN nstore[a].folders |->
                   IF nstore[a].folders[f].name = nargs.folder
                   THEN nstore[a].folders[f].notes ELSE <<>>])
    ELSE Concat([f \in DOMAIN nstore[a].folders |-> nstore[a].folders[f].notes])

\* C14: with no account given, a successful list-notes returns one entry
\* "<account> > <title>" for every note it covers, the accounts in enumeration
\* order and the notes of an account in the store's order; notes of the same
\* title in different accounts are separate entries, nothing is merged.
C14_AllAccountsInOrder ==
    (ndoc.returned /\ ndoc.success /\ ncmd = "list-notes" /\ ~Given(nargs.account))
        => ndoc.notes =
             Concat([a \in DOMAIN nstore |->
                       [i \in DOMAIN Covered(a) |->
                           nstore[a].name \o <<" > ">> \o Covered(a)[i].name]])

\* list-notes --folder Inbox has returned the entry of A's note T before the
\* entry of X's note T
C14_Witness ==
    /\ ndoc.returned /\ ndoc.success
    /\ ncmd = "list-notes" /\ ~Given(nargs.account) /\ nargs.folder = <<"Inbox">>
    /\ ndoc.notes = << <<"A", " > ", "T">>, <<"X", " > ", "T">> >>

\* read, delete or append without an account
Unscoped == ncmd \in {"read", "delete", "append"} /\ ~Given(nargs.account)

\* the positions <<account, folder, index>> of the notes with the given title
Holding ==
    {p \in (DOMAIN nstore) \X (1..2) \X (1..2) :
        /\ p[2] \in DOMAIN nstore[p[1]].folders
        /\ p[3] \in DOMAIN nstore[p[1]].folders[p[2]].notes
        /\ nstore[p[1]].folders[p[2]].notes[p[3]].name = nargs.title}

\* the first of them: first account, first folder of it, first note of it
FirstHolding ==
    CHOOSE p \in Holding :
        \A q \in Holding :
            \/ p[1] < q[1]
            \/ p[1] = q[1] /\ p[2] < q[2]
            \/ p[1] = q[1] /\ p[2] = q[2] /\ p[3] <= q[3]

\* the note at a position
Held(p) == nstore[p[1]].folders[p[2]].notes[p[3]]

SingleErrorLine(output) ==
    /\ StartsWithError(output)
    /\ \A i \in DOMAIN output : output[i] /= "lf"

\* C16: in every notes operation, a response that run_applescript returned as
\* a success is decoded as a failure when it is a single line beginning with
\* "ERROR:", and only then: the list-producing operations look for the
\* sentinel like the others, and a record list of several lines is not
\* rejected because its first record begins with "ERROR:".
C16_SentinelDecoding ==
    (ndoc.returned /\ ran.success)
        => (~ndoc.success <=> SingleErrorLine(ran.output))

\* the note's title or its plain text contains the query, case ignored
MatchesQuery(note) ==
    \/ Contains(Lower(note.text), Lower(nargs.query))
    \/ Contains(Lower(note.name), Lower(nargs.query))

\* the notes of account a that match the query, in the store's order
Matching(a) ==
    SelectSeq(Concat([f \in DOMAIN nstore[a].folders |-> nstore[a].folders[f].notes]),
              MatchesQuery)

OneDocument ==
    /\ Len(stdout) = 1
    /\ stdout[1].json /\ stdout[1].shape = "object"
    /\ stdout[1].success \in {"true", "false"}

\* C19: no invocation of osascript lasts longer than the 30-unit timeout and
\* run_applescript raises nothing: a timeout, an exit code other than 0 and any
\* other exception each come back as (False, message); every notes command
\* therefore ends, having printed a document with a success field.
C19_BoundedAndTotal ==
    /\ [](npc = "running" => elapsed <= Timeout)
    /\ [](raised = NoException)
    /\ []((ran.returned /\ ran.how \in {"timeout", "exit1", "exception"})
            => (~ran.success /\ ran.output /= <<>>))
    /\ [](ran.how = "timeout" => ran.output = <<"AppleScript execution timed out">>)
    /\ [](npc = "done" => OneDocument)
    /\ (npc = "start") ~> (npc = "done")

\* a command whose script ran into the timeout has ended with a failure document
C19_Witness ==
    /\ npc = "done"
    /\ ran.how = "timeout"
    /\ OneDocument /\ stdout[1].success = "false"
    /\ exitCode = 1

\* C20: the two date conversions are inverses of each other on instants.  For
\* every datetime t that stands for an instant u of the run (a local reading
\* with its fold, or a reading with its UTC offset), the NSDate made of t
\* holds u and the datetime made of that NSDate stands for u again; when t is
\* a local datetime, the datetime that comes back has the wall-clock reading of
\* t and, for a repeated reading, the fold of t.
C20_DateRoundTrip ==
    \A u \in Instants :
        (conv.pc = "back" /\ Denotes(conv.t, u)) =>
            /\ conv.ns = u
            /\ Denotes(conv.back, u)
            /\ ~conv.t.aware =>
                   /\ conv.back.wall = conv.t.wall
                   /\ Cardinality(InstantsOf(conv.t.wall)) = 2 =>
                          conv.back.fold = conv.t.fold

\* an instant in the second pass of a repeated hour has gone through both
\* conversions, given as a local datetime with fold 1
C20_Witness ==
    /\ conv.pc = "back"
    /\ ~conv.t.aware
    /\ conv.t.fold = 1
    /\ Cardinality(InstantsOf(conv.t.wall)) = 2
    /\ conv.back = conv.t

\* C17: after a create-reminder with title T, a due instant D and priority P
\* has ended with exit code 0, a following list-reminders whose fetch was
\* answered within the wait prints a record with title T, priority P,
\* completed false and a due_date that decodes to the instant D.
C17_CreateThenList ==
    (/\ cmd = "list-reminders"
     /\ pc = "exited"
     /\ exitCode = 0
     /\ fetch.ret = "set"
     /\ Len(stdout) = 2) =>
        \A c \in stdout[1].records :
            c.due_date /= <<>> =>
                \E r \in stdout[2].records :
                    /\ r.title = c.title
                    /\ r.priority = c.priority
                    /\ r.completed = FALSE
                    /\ r.due_date /= <<>>
                    /\ timestamp(fromisoformat(r.due_date[1]))
                           = timestamp(fromisoformat(c.due_date[1]))

\* C21: a folder given to read or delete restricts the lookup to the folders
\* of that name.  A step of delete --title T --folder F leaves the notes of
\* every folder not called F as they are, and read --title T --folder F
\* without an account, when it returns a content, returns that of a note
\* called T of a folder called F.
C21_FolderRestricts ==
    [][(ncmd \in {"read", "delete"} /\ Given(nargs.folder)) =>
          /\ ncmd = "delete" =>
                 \A a \in DOMAIN nstore : \A f \in DOMAIN nstore[a].folders :
                     nstore[a].folders[f].name /= nargs.folder =>
                         nstore'[a].folders[f] = nstore[a].folders[f]
          /\ (ncmd = "read" /\ ~Given(nargs.account) /\ Returns /\ ndoc'.success) =>
                 \E a \in DOMAIN nstore : \E f \in DOMAIN nstore[a].folders :
                     /\ nstore[a].folders[f].name = nargs.folder
                     /\ \E n \in DOMAIN nstore[a].folders[f].notes :
                            /\ nstore[a].folders[f].notes[n].name = nargs.title
                            /\ ndoc'.content
                                   = Content(nstore[a].folders[f].notes[n], nargs.plaintext)
      ]_vars

\* C22: when a request_event_access / request_reminder_access call has
\* returned the value r, the manager's flag of that capability
\* (_authorized_events / _authorized_reminders) is r, whenever the host's
\* callback runs.
C22_FlagIsResult ==
    (pc = "idle" /\ calls > 0) => authorized[cur] = result

\* the folders of the store, as <<account, folder>> positions
FolderPositions(store) ==
    UNION {{<<a, f>> : f \in DOMAIN store[a].folders} : a \in DOMAIN store}

\* after is before without the k-th note of folder p, everything else the same
RemovedAt(before, after, p, k) ==
    /\ DOMAIN after = DOMAIN before
    /\ \A a \in DOMAIN before :
         /\ after[a].name = before[a].name
         /\ DOMAIN after[a].folders = DOMAIN before[a].folders
    /\ \A q \in FolderPositions(before) :
         /\ after[q[1]].folders[q[2]].name = before[q[1]].folders[q[2]].name
         /\ LET old == before[q[1]].folders[q[2]].notes
                new == after[q[1]].folders[q[2]].notes
            IN  IF q = p
                THEN new = SubSeq(old, 1, k - 1) \o SubSeq(old, k + 1, Len(old))
                ELSE new = old

\* after is before without exactly one of its notes
OneNoteRemoved(before, after) ==
    \E p \in FolderPositions(before) :
        \E k \in DOMAIN before[p[1]].folders[p[2]].notes : RemovedAt(before, after, p, k)

\* C23: a delete whose script answers SUCCESS removes exactly one note and
\* leaves every other note, folder and account as it was; a delete whose
\* script answers "ERROR: Note not found" or another ERROR line leaves the
\* store as it was; no other step of the command touches the store; and the
\* dict reports success exactly for a SUCCESS answer that run_applescript
\* handed over.
C23_DeleteFrame ==
    [][ncmd = "delete" =>
          /\ IF ran.how = "none" /\ ran'.how = "executed"
             THEN IF StartsWithError(ran'.output)
                  THEN nstore' = nstore
                  ELSE OneNoteRemoved(nstore, nstore')
             ELSE nstore' = nstore
          /\ (ndoc'.returned /\ ndoc'.success) =>
                 (ran'.how = "exit0" /\ ~StartsWithError(ran'.output))
          /\ (ndoc'.returned /\ StartsWithError(ndoc'.error)) =>
                 (ran'.how = "exit0" /\ StartsWithError(ran'.output))
      ]_vars

\* a delete has reported success for a title that two accounts hold, and the
\* second account still has its note of that title
C23_Witness ==
    /\ ncmd = "delete"
    /\ ndoc.returned
    /\ ndoc.success
    /\ Len(nstore) = 2
    /\ FirstNote(nstore[1], nargs.title) = <<0, 0>>
    /\ FirstNote(nstore[2], nargs.title) /= <<0, 0>>
    /\ ~Given(nargs.account)

\* create was given a folder and no account
AnyAccount == ncmd = "create" /\ Given(nargs.folder) /\ ~Given(nargs.account)

\* account a has a folder of the given name
HasFolder(a) ==
    \E f \in DOMAIN nstore[a].folders : nstore[a].folders[f].name = nargs.folder

\* the step in which the Notes application carries the script out
Executes == ran.how = "none" /\ ran'.how = "executed"

Created == IF cmd = "create-event" THEN "event" ELSE "reminder"

\* the indices of the calendars of that type that bear the given name
Bearing == {i \in DOMAIN CalendarTitles(Created) : CalendarTitles(Created)[i] = arg.name}

\* the saves the handler has issued in this step
NewSaves ==
    {k \in (Len(storeLog) + 1)..Len(storeLog') :
        storeLog'[k].op \in {"saveEvent", "saveReminder"}}

\* C24: create_event and create_reminder with a name that no calendar or list
\* bears raise "not found" without issuing a save, and the store holds the
\* items it held; with a name that several bear, the item is saved to the
\* first of them in the store's enumeration order; with no name it is saved to
\* the store's default calendar; an item is added exactly when nothing is
\* raised, by one save.
C24_CreateContainer ==
    [][(pc = "handler" /\ pc' = "exited" /\ cmd \in {"create-event", "create-reminder"}) =>
          /\ (arg.name /= "none" /\ Bearing = {}) =>
                /\ raised' /= NoException
                /\ raised'[1] = "ValueError"
                /\ raised'[Len(raised')] = "not found"
                /\ NewSaves = {}
                /\ events' = events
                /\ reminders' = reminders
                /\ details' = details
          /\ (arg.name /= "none" /\ Bearing /= {}) =>
                \A k \in NewSaves : \A i \in Bearing : storeLog'[k].calendar <= i
          /\ \A k \in NewSaves :
                /\ arg.name /= "none" => storeLog'[k].calendar \in Bearing
                /\ arg.name = "none" => storeLog'[k].calendar = DefaultCalendar(Created)
                /\ NewReminderId \in reminders' =>
                       details'[NewReminderId].calendar = storeLog'[k].calendar
          /\ (events' \cup reminders' /= events \cup reminders) <=> (raised' = NoException)
          /\ raised' = NoException =>
                /\ Cardinality(NewSaves) = 1
                /\ IF cmd = "create-event"
                   THEN events' = events \cup {NewEventId} /\ reminders' = reminders
                   ELSE reminders' = reminders \cup {NewReminderId} /\ events' = events
      ]_vars

\* create-event --calendar Home has saved its event to the second calendar,
\* the first of the two titled Home
C24_Witness ==
    /\ cmd = "create-event"
    /\ arg.name = "Home"
    /\ pc = "exited"
    /\ exitCode = 0
    /\ NewEventId \in events
    /\ storeLog[Len(storeLog)].op = "saveEvent"
    /\ storeLog[Len(storeLog)].calendar = 2
    /\ CalendarTitles("event")[3] = "Home"

====
